---------------------------- MODULE Spec2Model ----------------------------
(***************************************************************************)
(* State-machine model of the ThreadManager worker pool                    *)
(* (ThreadManager::Impl, ThreadManager::Worker, ThreadManager::Task,       *)
(* SimpleThreadManager) together with the Mutex/Guard, Monitor and Thread  *)
(* contracts it is built on.                                               *)
(*                                                                         *)
(* Threads are numbered: 1..NumClients are application threads calling     *)
(* the public operations, the following MaxWorkers numbers are the OS      *)
(* threads of the workers.  An operation is one action per stretch   *)
(* of code between two points where it takes, releases or waits on the   *)
(* shared mutex_.                                                          *)
(***************************************************************************)
EXTENDS Integers, Sequences, FiniteSets, TLC

\* ------------------------------------------------------------------ bounds
NumClients == 2     \* application threads
MaxWorkers == 2     \* worker threads the model has room for
MaxTasks   == 3     \* Task objects the model has room for
MaxTime    == 2     \* steady_clock ticks observed in a run
AdminWorkers == 1   \* threads created in a run of SpecAdmin
AdminTasks   == 1   \* tasks created in a run of SpecAdmin
QueueTasks   == 3   \* tasks created in a run of SpecQueue
LiveTasks    == 3   \* tasks created in a run of SpecLive
GrowWorkers  == 2   \* threads created in a run of SpecGrow
GrowTasks    == 1   \* tasks created in a run of SpecGrow
ResizeWorkers == 2  \* threads a run of SpecResize has, the first included
ResizeTasks  == 1   \* tasks created in a run of SpecResize
ShrinkMax    == 2   \* largest n of removeWorker(n) in SpecShrink
ShrinkTasks  == 1   \* tasks created in a run of SpecShrink
LifeWorkers  == 2   \* threads created in a run of SpecLife
LifeTasks    == 1   \* tasks created in a run of SpecLife
RestartTasks == 1   \* tasks created in a run of SpecRestart
GateTasks    == 2   \* tasks created in a run of SpecGate
FactoryWorkers == 1 \* threads created in a run of SpecFactory
TryTasks     == 3   \* tasks created in a run of SpecTry
RemoveTasks  == 3   \* tasks created in a run of SpecRemove
RemoveWorks  == 2   \* different work items submitted in SpecRemove
SweepTasks   == 3   \* tasks created in a run of SpecSweep
FifoTasks    == 3   \* tasks created in a run of SpecFifo
FifoWorks    == 2   \* different work items submitted in SpecFifo
ThrowTasks   == 3   \* tasks created in a run of SpecThrow
UnblockTasks == 3   \* tasks created in a run of SpecUnblock

Clients   == 1..NumClients
WorkerIds == (NumClients + 1)..(NumClients + MaxWorkers)
Threads   == Clients \cup WorkerIds
TaskIds   == 1..MaxTasks

Free     == 0       \* mutex_ not owned
NoId     == 0       \* std::thread::id(), the id of no thread
NoExpire == -1      \* Task::expireTime_ is a null unique_ptr
NoTask   == 0

VARIABLES
  ctor,                 \* constructor arguments: [simple, count, cap]
  state,                \* Impl::state_
  threadFactory,        \* Impl::threadFactory_: "null", "detached", "joinable"
  workerCount,          \* Impl::workerCount_      (size_t, see USize)
  workerMaxCount,       \* Impl::workerMaxCount_
  idleCount,            \* Impl::idleCount_
  pendingTaskCountMax,  \* Impl::pendingTaskCountMax_
  expiredCount,         \* Impl::expiredCount_
  expireCallback,       \* Impl::expireCallback_ is non-empty
  tasks,                \* Impl::tasks_: sequence of [id, runnable, expireTime]
  workers,              \* Impl::workers_
  deadWorkers,          \* Impl::deadWorkers_
  idMap,                \* keys of Impl::idMap_ (the mapped values are never read)
  mutex,                \* owner of Impl::mutex_, or Free
  monitor,              \* threads blocked in monitor_.wait()        (waitQueue)
  maxMonitor,           \* threads blocked in maxMonitor_.wait()     (waitMax)
  workerMonitor,        \* threads blocked in workerMonitor_.wait()  (waitWorkers)
  wpc,                  \* position of each worker thread in Worker::run
  wtask,                \* the task a worker has popped, or NoTask
  thrDetached,          \* Thread::detached_ of each worker's Thread
  joined,               \* Threads whose std::thread has been joined
  call,                 \* the public operation each thread is executing
  ret,                  \* history: the operation that completed last, its outcome
  now,                  \* std::chrono::steady_clock::now()
  taskState,            \* Task::state_ of every Task created so far
  nextId,               \* number of Task objects created so far
  runCount,             \* history: calls of runnable_->run() per Task
  cbCount,              \* history: calls of expireCallback_ per Task
  removedIds,           \* history: Tasks taken out by remove/removeNextPending
  sweptIds,             \* history: Tasks erased by removeExpired
  joinSnap,             \* history: ids in tasks_ when state_ became JOINING
  joinSeen,             \* history: state_ has been set to JOINING
  joinWorkers,          \* history: workerCount_ when state_ became JOINING
  adminOps,             \* history: addWorker/removeWorker/stop calls begun (2 = more)
  thrState,             \* Thread::state_ of each Thread
  thrMutex,             \* owner of the mutex of each Thread's monitor_, or Free
  thrWaiters            \* threads blocked in monitor_.wait() of each Thread

mgr   == <<state, threadFactory, workerCount, workerMaxCount, idleCount,
           pendingTaskCountMax, expiredCount, expireCallback>>
colls == <<workers, deadWorkers, idMap>>
mons  == <<monitor, maxMonitor, workerMonitor>>
wvars == <<wpc, wtask, thrDetached, joined>>
hist  == <<runCount, cbCount, removedIds, sweptIds, joinSnap, joinSeen,
           joinWorkers, adminOps>>
thr   == <<thrState, thrMutex, thrWaiters>>
vars  == <<ctor, mgr, tasks, colls, mutex, mons, wvars, call, ret, now,
           taskState, nextId, hist, thr>>

\* ------------------------------------------------------- size_t arithmetic
\* A size_t is kept as an integer congruent to it modulo 2^64: a negative
\* number v stands for 2^64 + v (0 - 1 is SIZE_MAX).  Comparisons are unsigned.
ULt(a, b) == IF (a < 0) = (b < 0) THEN a < b ELSE b < 0
ULe(a, b) == a = b \/ ULt(a, b)

Min(a, b) == IF a < b THEN a ELSE b

\* ------------------------------------------------------------ call records
Idle == [op |-> "idle", pc |-> "idle", a |-> 0, b |-> 0, r |-> 0, ths |-> {}]
NoRet == [t |-> 0, op |-> "none", ok |-> TRUE, val |-> 0]

Op(name, pcv, av, bv, rv) ==
  [op |-> name, pc |-> pcv, a |-> av, b |-> bv, r |-> rv, ths |-> {}]

\* A thread may call a public operation when it is between calls; a worker
\* thread only from inside a work item's run().
CanCall(t) ==
  /\ call[t] = Idle
  /\ IF t \in WorkerIds THEN wpc[t] = "run" ELSE TRUE

\* The operation returns (ok) or throws (~ok); Guard's destructor unlocks.
Finish(t, ok, val) ==
  /\ call' = [call EXCEPT ![t] = Idle]
  /\ ret' = [t |-> t, op |-> call[t].op, ok |-> ok, val |-> val]

\* ------------------------------------------------------------------ Monitor
\* notify(): one waiting thread, if any, leaves the wait set.
NotifyOne(m, m2) == IF m = {} THEN m2 = m ELSE \E t \in m : m2 = m \ {t}

\* --------------------------------------------------------------------- Task
Expired(task) == task.expireTime # NoExpire /\ task.expireTime < now

NewTask(id, r, expiration) ==
  [id |-> id, runnable |-> r,
   expireTime |-> IF expiration # 0 THEN now + expiration ELSE NoExpire]

QueueIds(q) == {q[i].id : i \in 1..Len(q)}

\* ------------------------------------------------------------------- Thread
\* Thread::getId(): thread_->get_id() is the OS id only while the std::thread
\* is joinable; after detach() or join() it is std::thread::id().
getId(w, det, jn) == IF det[w] \/ w \in jn THEN NoId ELSE w

getCurrentThreadId(t) == t

canSleep(t) == getCurrentThreadId(t) \notin idMap

\* Worker::isActive
isActive ==
  \/ ULe(workerCount, workerMaxCount)
  \/ (state = "JOINING" /\ tasks # <<>>)

TypeOK ==
  /\ state \in {"UNINITIALIZED", "STARTING", "STARTED", "JOINING", "STOPPING", "STOPPED"}
  /\ threadFactory \in {"null", "detached", "joinable"}
  /\ mutex \in Threads \cup {Free}
  /\ monitor \subseteq WorkerIds
  /\ maxMonitor \subseteq Threads
  /\ workerMonitor \subseteq Threads
  /\ nextId \in 0..MaxTasks
  /\ now \in 0..MaxTime
  /\ thrState \in [WorkerIds -> {"uninitialized", "starting", "started",
                                 "stopping", "stopped"}]
  /\ thrMutex \in [WorkerIds -> Threads \cup {Free}]
  /\ thrWaiters \in [WorkerIds -> SUBSET Threads]

\* The state after construction (Impl::Impl, SimpleThreadManager's
\* constructor): nothing started, no factory, no thread.
Constructed(simple, counts, caps) ==
  /\ ctor \in [simple : {simple}, count : counts, cap : caps]
  /\ state = "UNINITIALIZED"
  /\ threadFactory = "null"
  /\ workerCount = 0
  /\ workerMaxCount = 0
  /\ idleCount = 0
  /\ pendingTaskCountMax = 0
  /\ expiredCount = 0
  /\ expireCallback = FALSE
  /\ tasks = <<>>
  /\ workers = {}
  /\ deadWorkers = {}
  /\ idMap = {}
  /\ mutex = Free
  /\ monitor = {}
  /\ maxMonitor = {}
  /\ workerMonitor = {}
  /\ wpc = [w \in WorkerIds |-> "unborn"]
  /\ wtask = [w \in WorkerIds |-> NoTask]
  /\ thrDetached = [w \in WorkerIds |-> FALSE]
  /\ joined = {}
  /\ call = [t \in Threads |-> Idle]
  /\ ret = NoRet
  /\ now = 0
  /\ taskState = [i \in TaskIds |-> "NONE"]
  /\ nextId = 0
  /\ runCount = [i \in TaskIds |-> 0]
  /\ cbCount = [i \in TaskIds |-> 0]
  /\ removedIds = {}
  /\ sweptIds = {}
  /\ joinSnap = {}
  /\ joinSeen = FALSE
  /\ joinWorkers = 0
  /\ adminOps = 0
  /\ thrState = [w \in WorkerIds |-> "uninitialized"]
  /\ thrMutex = [w \in WorkerIds |-> Free]
  /\ thrWaiters = [w \in WorkerIds |-> {}]

\* A blank manager on which threadFactory(f) and then start() have returned:
\* as constructed, but for the factory and state_.
StartedBlank(factories) ==
  /\ ctor = [simple |-> FALSE, count |-> 0, cap |-> 0]
  /\ state = "STARTED"
  /\ threadFactory \in factories
  /\ workerCount = 0
  /\ workerMaxCount = 0
  /\ idleCount = 0
  /\ pendingTaskCountMax = 0
  /\ expiredCount = 0
  /\ expireCallback = FALSE
  /\ tasks = <<>>
  /\ workers = {}
  /\ deadWorkers = {}
  /\ idMap = {}
  /\ mutex = Free
  /\ monitor = {}
  /\ maxMonitor = {}
  /\ workerMonitor = {}
  /\ wpc = [w \in WorkerIds |-> "unborn"]
  /\ wtask = [w \in WorkerIds |-> NoTask]
  /\ thrDetached = [w \in WorkerIds |-> FALSE]
  /\ joined = {}
  /\ call = [t \in Threads |-> Idle]
  /\ ret = NoRet
  /\ now = 0
  /\ taskState = [i \in TaskIds |-> "NONE"]
  /\ nextId = 0
  /\ runCount = [i \in TaskIds |-> 0]
  /\ cbCount = [i \in TaskIds |-> 0]
  /\ removedIds = {}
  /\ sweptIds = {}
  /\ joinSnap = {}
  /\ joinSeen = FALSE
  /\ joinWorkers = 0
  /\ adminOps = 0
  /\ thrState = [w \in WorkerIds |-> "uninitialized"]
  /\ thrMutex = [w \in WorkerIds |-> Free]
  /\ thrWaiters = [w \in WorkerIds |-> {}]

\* A SimpleThreadManager(count, cap) on which threadFactory(f), optionally
\* setExpireCallback, and then start() have returned and whose workers have
\* all gone to sleep on the empty queue: the first `count` threads are
\* workers, counted, idle and waiting on monitor_.
StartedPool(factories, counts, caps, callbacks) ==
  /\ ctor \in [simple : {TRUE}, count : counts, cap : caps]
  /\ state = "STARTED"
  /\ threadFactory \in factories
  /\ workerCount = ctor.count
  /\ workerMaxCount = ctor.count
  /\ idleCount = ctor.count
  /\ pendingTaskCountMax = ctor.cap
  /\ expiredCount = 0
  /\ expireCallback \in callbacks
  /\ tasks = <<>>
  /\ workers = {w \in WorkerIds : w <= NumClients + ctor.count}
  /\ deadWorkers = {}
  /\ thrDetached = [w \in WorkerIds |-> w \in workers /\ threadFactory = "detached"]
  /\ joined = {}
  /\ idMap = {getId(w, thrDetached, joined) : w \in workers}
  /\ mutex = Free
  /\ monitor = workers
  /\ maxMonitor = {}
  /\ workerMonitor = {}
  /\ wpc = [w \in WorkerIds |-> IF w \in workers THEN "idle" ELSE "unborn"]
  /\ wtask = [w \in WorkerIds |-> NoTask]
  /\ call = [t \in Threads |-> Idle]
  /\ ret = NoRet
  /\ now = 0
  /\ taskState = [i \in TaskIds |-> "NONE"]
  /\ nextId = 0
  /\ runCount = [i \in TaskIds |-> 0]
  /\ cbCount = [i \in TaskIds |-> 0]
  /\ removedIds = {}
  /\ sweptIds = {}
  /\ joinSnap = {}
  /\ joinSeen = FALSE
  /\ joinWorkers = 0
  /\ adminOps = 0
  /\ thrState = [w \in WorkerIds |->
                   IF w <= NumClients + ctor.count THEN "started"
                   ELSE "uninitialized"]
  /\ thrMutex = [w \in WorkerIds |-> Free]
  /\ thrWaiters = [w \in WorkerIds |-> {}]

\* ===================================================== public operations
\* Guard g(mutex_): the caller of operation `name` acquires the mutex.
Lock(t, name, av, bv, rv) ==
  /\ CanCall(t)
  /\ mutex = Free
  /\ mutex' = t
  /\ call' = [call EXCEPT ![t] = Op(name, "cs", av, bv, rv)]
  /\ UNCHANGED <<ctor, mgr, tasks, colls, mons, wvars, ret, now, taskState,
                 nextId, hist>>
  /\ UNCHANGED thr

\* The same for addWorker, removeWorker and stop, which adminOps counts.
Bump(n) == IF n < 2 THEN n + 1 ELSE 2

AdminLock(t, name, av) ==
  /\ CanCall(t)
  /\ mutex = Free
  /\ mutex' = t
  /\ call' = [call EXCEPT ![t] = Op(name, "cs", av, 0, 0)]
  /\ adminOps' = Bump(adminOps)
  /\ UNCHANGED <<ctor, mgr, tasks, colls, mons, wvars, ret, now, taskState,
                 nextId, runCount, cbCount, removedIds, sweptIds, joinSnap,
                 joinSeen, joinWorkers>>
  /\ UNCHANGED thr

InCs(t, name) == call[t].op = name /\ call[t].pc = "cs" /\ mutex = t

\* --------------------------------------------- threadFactory(value) setter
SetFactoryLock(t, d) == Lock(t, "threadFactory", 0, 0, d)

SetFactory(t) ==
  /\ InCs(t, "threadFactory")
  /\ LET value == IF call[t].r = 1 THEN "detached" ELSE "joinable" IN
     IF threadFactory # "null" /\ threadFactory # value
       THEN Finish(t, FALSE, 0) /\ UNCHANGED threadFactory
       ELSE Finish(t, TRUE, 0) /\ threadFactory' = value
  /\ mutex' = Free
  /\ UNCHANGED <<ctor, state, workerCount, workerMaxCount, idleCount,
                 pendingTaskCountMax, expiredCount, expireCallback, tasks,
                 colls, mons, wvars, now, taskState, nextId, hist>>
  /\ UNCHANGED thr

\* ------------------------------------------------- setExpireCallback(fn)
SetExpireCallbackLock(t, b) == Lock(t, "setExpireCallback", 0, 0, b)

SetExpireCallback(t) ==
  /\ InCs(t, "setExpireCallback")
  /\ expireCallback' = (call[t].r = 1)
  /\ Finish(t, TRUE, 0)
  /\ mutex' = Free
  /\ UNCHANGED <<ctor, state, threadFactory, workerCount, workerMaxCount,
                 idleCount, pendingTaskCountMax, expiredCount, tasks, colls,
                 mons, wvars, now, taskState, nextId, hist>>
  /\ UNCHANGED thr

\* ------------------------------------------------------------------ start
\* Impl::start takes the mutex at once; SimpleThreadManager::start first
\* runs the setter pendingTaskCountMax(value) under a Guard of its own.
StartLock(t) ==
  Lock(t, "start", 0, 0, 0)
  /\ ctor.simple = FALSE

SimpleStartLock(t) ==
  /\ ctor.simple
  /\ CanCall(t)
  /\ mutex = Free
  /\ mutex' = t
  /\ call' = [call EXCEPT ![t] = Op("start", "setcap", 0, 0, 0)]
  /\ UNCHANGED <<ctor, mgr, tasks, colls, mons, wvars, ret, now, taskState,
                 nextId, hist>>
  /\ UNCHANGED thr

\* Impl::pendingTaskCountMax(value), called by SimpleThreadManager::start
SetPendingTaskCountMax(t) ==
  /\ call[t].op = "start" /\ call[t].pc = "setcap" /\ mutex = t
  /\ pendingTaskCountMax' = ctor.cap
  /\ mutex' = Free
  /\ call' = [call EXCEPT ![t].pc = "startlock"]
  /\ UNCHANGED <<ctor, state, threadFactory, workerCount, workerMaxCount,
                 idleCount, expiredCount, expireCallback, tasks, colls, mons,
                 wvars, ret, now, taskState, nextId, hist>>
  /\ UNCHANGED thr

\* Guard g(mutex_) of Impl::start inside SimpleThreadManager::start
SimpleStartRelock(t) ==
  /\ call[t].op = "start" /\ call[t].pc = "startlock"
  /\ mutex = Free
  /\ mutex' = t
  /\ call' = [call EXCEPT ![t].pc = "cs"]
  /\ UNCHANGED <<ctor, mgr, tasks, colls, mons, wvars, ret, now, taskState,
                 nextId, hist>>
  /\ UNCHANGED thr

\* (variant: a STOPPED manager is started again)
StartRestarts(t) ==
  /\ InCs(t, "start")
  /\ mutex' = Free
  /\ LET goOn == IF ctor.simple
                   THEN /\ call' = [call EXCEPT ![t].pc = "create", ![t].a = ctor.count]
                        /\ UNCHANGED ret
                   ELSE Finish(t, TRUE, 0)
     IN
     \/ /\ state \in {"UNINITIALIZED", "STOPPED"}
        /\ IF threadFactory = "null"
             THEN Finish(t, FALSE, 0) /\ UNCHANGED state
             ELSE state' = "STARTED" /\ goOn
     \/ /\ state \notin {"STOPPED", "UNINITIALIZED", "STARTING"}
        /\ goOn
        /\ UNCHANGED state
  /\ monitor' = IF state \in {"UNINITIALIZED", "STOPPED"} /\ threadFactory # "null"
                  THEN {} ELSE monitor
  /\ UNCHANGED <<ctor, threadFactory, workerCount, workerMaxCount, idleCount,
                 pendingTaskCountMax, expiredCount, expireCallback, tasks,
                 colls, maxMonitor, workerMonitor, wvars, now, taskState,
                 nextId, hist>>
  /\ UNCHANGED thr

\* Impl::start.  state_ is never STARTING, so the wait loop is not entered.
\* For SimpleThreadManager a start that did not throw goes on to addWorker.
Start(t) ==
  /\ InCs(t, "start")
  /\ mutex' = Free
  /\ LET goOn == IF ctor.simple
                   THEN /\ call' = [call EXCEPT ![t].pc = "create", ![t].a = ctor.count]
                        /\ UNCHANGED ret
                   ELSE Finish(t, TRUE, 0)
     IN
     \/ /\ state = "STOPPED"
        /\ goOn
        /\ UNCHANGED state
     \/ /\ state = "UNINITIALIZED"
        /\ IF threadFactory = "null"
             THEN Finish(t, FALSE, 0) /\ UNCHANGED state
             ELSE state' = "STARTED" /\ goOn
     \/ /\ state \notin {"STOPPED", "UNINITIALIZED", "STARTING"}
        /\ goOn
        /\ UNCHANGED state
  /\ monitor' = IF state = "UNINITIALIZED" /\ threadFactory # "null" THEN {} ELSE monitor
  /\ UNCHANGED <<ctor, threadFactory, workerCount, workerMaxCount, idleCount,
                 pendingTaskCountMax, expiredCount, expireCallback, tasks,
                 colls, maxMonitor, workerMonitor, wvars, now, taskState,
                 nextId, hist>>
  /\ UNCHANGED thr

\* -------------------------------------------------------------- addWorker
Unborn == {w \in WorkerIds : wpc[w] = "unborn"}

\* The n lowest unused thread numbers.
RECURSIVE Lowest(_, _)
Lowest(S, n) ==
  IF n = 0 \/ S = {} THEN {}
  ELSE LET m == CHOOSE x \in S : \A y \in S : x <= y
       IN {m} \cup Lowest(S \ {m}, n - 1)

\* The loop before the Guard: threadFactory_->newThread(worker), n times.
\* Thread's constructor copies the factory's detached disposition.
NewThreads(t, n) ==
  /\ threadFactory # "null"
  /\ n <= Cardinality(Unborn)
  /\ LET new == Lowest(Unborn, n) IN
     /\ wpc' = [w \in WorkerIds |-> IF w \in new THEN "new" ELSE wpc[w]]
     /\ thrDetached' = [w \in WorkerIds |->
                          IF w \in new THEN threadFactory = "detached"
                          ELSE thrDetached[w]]
     /\ call' = [call EXCEPT ![t] =
                   [op |-> IF call[t].op = "start" THEN "start" ELSE "addWorker",
                    pc |-> "lock", a |-> n, b |-> 0, r |-> 0, ths |-> new]]
  /\ adminOps' = Bump(adminOps)
  /\ UNCHANGED <<ctor, mgr, tasks, colls, mutex, mons, wtask, joined, ret,
                 now, taskState, nextId, runCount, cbCount, removedIds,
                 sweptIds, joinSnap, joinSeen, joinWorkers>>
  /\ UNCHANGED thr

\* a thread of the model is left for each of the lim threads a run may create
AddWorkerCreate(t, n, lim) ==
  /\ CanCall(t)
  /\ Cardinality(WorkerIds \ Unborn) + n <= lim
  /\ NewThreads(t, n)

\* addWorker(workerCount_) at the end of SimpleThreadManager::start
SimpleAddWorkerCreate(t) ==
  /\ call[t].op = "start" /\ call[t].pc = "create"
  /\ NewThreads(t, call[t].a)

\* Guard g(mutex_) of addWorker
AddWorkerLock(t) ==
  /\ call[t].op \in {"addWorker", "start"} /\ call[t].pc = "lock"
  /\ mutex = Free
  /\ mutex' = t
  /\ call' = [call EXCEPT ![t].pc = "awcs"]
  /\ UNCHANGED <<ctor, mgr, tasks, colls, mons, wvars, ret, now, taskState,
                 nextId, hist>>
  /\ UNCHANGED thr

\* (variant: addWorker without the wait on workerMonitor_)
AddWorkerNoWait(t) ==
  /\ call[t].pc = "awcs" /\ mutex = t
  /\ LET new == call[t].ths IN
     /\ workerMaxCount' = workerMaxCount + call[t].a
     /\ workers' = workers \cup new
     /\ wpc' = [w \in WorkerIds |-> IF w \in new THEN "entry" ELSE wpc[w]]
     /\ idMap' = idMap \cup {getId(w, thrDetached, joined) : w \in new}
  /\ mutex' = Free
  /\ Finish(t, TRUE, 0)
  /\ UNCHANGED <<ctor, state, threadFactory, workerCount, idleCount,
                 pendingTaskCountMax, expiredCount, expireCallback, tasks,
                 deadWorkers, mons, wtask, thrDetached, joined,
                 now, taskState, nextId, hist>>
  /\ thrState' = [w \in WorkerIds |->
                    IF w \in call[t].ths THEN "started" ELSE thrState[w]]
  /\ UNCHANGED <<thrMutex, thrWaiters>>

\* The rest of addWorker, under the Guard: raise workerMaxCount_, insert the
\* new threads, start each one (Thread::start returns once the new thread
\* has run setState(started); the thread then blocks on mutex_ in
\* Worker::run), record getId() in idMap_, and wait on workerMonitor_ while
\* workerCount_ != workerMaxCount_.
AddWorker(t) ==
  /\ call[t].pc = "awcs" /\ mutex = t
  /\ LET new == call[t].ths IN
     /\ workerMaxCount' = workerMaxCount + call[t].a
     /\ workers' = workers \cup new
     /\ wpc' = [w \in WorkerIds |-> IF w \in new THEN "entry" ELSE wpc[w]]
     /\ idMap' = idMap \cup {getId(w, thrDetached, joined) : w \in new}
  /\ mutex' = Free
  /\ IF workerCount # workerMaxCount'
       THEN /\ workerMonitor' = workerMonitor \cup {t}
            /\ call' = [call EXCEPT ![t].pc = "awwait"]
            /\ UNCHANGED ret
       ELSE /\ Finish(t, TRUE, 0)
            /\ UNCHANGED workerMonitor
  /\ UNCHANGED <<ctor, state, threadFactory, workerCount, idleCount,
                 pendingTaskCountMax, expiredCount, expireCallback, tasks,
                 deadWorkers, monitor, maxMonitor, wtask, thrDetached, joined,
                 now, taskState, nextId, hist>>
  /\ thrState' = [w \in WorkerIds |->
                    IF w \in call[t].ths THEN "started" ELSE thrState[w]]
  /\ UNCHANGED <<thrMutex, thrWaiters>>

\* workerMonitor_.wait() returned in addWorker: the loop tests again.
AddWorkerWake(t) ==
  /\ call[t].pc = "awwait" /\ t \notin workerMonitor
  /\ mutex = Free
  /\ IF workerCount # workerMaxCount
       THEN /\ workerMonitor' = workerMonitor \cup {t}
            /\ UNCHANGED <<call, ret>>
       ELSE /\ Finish(t, TRUE, 0)
            /\ UNCHANGED workerMonitor
  /\ UNCHANGED <<ctor, mgr, tasks, colls, mutex, monitor, maxMonitor, wvars,
                 now, taskState, nextId, hist>>
  /\ UNCHANGED thr

\* -------------------------------------------- removeWorker, stop
\* The loop over deadWorkers_ at the end of removeWorkersUnderLock: join when
\* the factory is joinable (Thread::join joins unless the Thread is
\* detached), erase getId() from idMap_ - read after the join - and the
\* thread from workers_; then deadWorkers_.clear().
DrainDeadWorkers ==
  LET jn == IF threadFactory # "detached"
              THEN joined \cup {d \in deadWorkers : ~thrDetached[d]}
              ELSE joined
  IN
  /\ joined' = jn
  /\ idMap' = idMap \ {getId(d, thrDetached, jn) : d \in deadWorkers}
  /\ workers' = workers \ deadWorkers
  /\ deadWorkers' = {}

\* The value state_ has when stop leaves removeWorkersUnderLock normally.
AfterRemove(t) == IF call[t].op = "stop" THEN "STOPPED" ELSE state

\* (variant: value is not compared with workerMaxCount_)
removeWorkersUnchecked(t, value, st) ==
  /\ workerMaxCount' = workerMaxCount - value
  /\ IF ULt(value, idleCount)
       THEN \E S \in SUBSET monitor :
              /\ Cardinality(S) = Min(value, Cardinality(monitor))
              /\ monitor' = monitor \ S
       ELSE monitor' = {}
  /\ IF workerCount # workerMaxCount'
       THEN /\ workerMonitor' = workerMonitor \cup {t}
            /\ call' = [call EXCEPT ![t].pc = "rwwait"]
            /\ state' = st
            /\ UNCHANGED <<ret, colls, joined>>
       ELSE /\ DrainDeadWorkers
            /\ state' = IF call[t].op = "stop" THEN "STOPPED" ELSE st
            /\ Finish(t, TRUE, 0)
            /\ UNCHANGED workerMonitor

\* removeWorkersUnderLock(value), entered with state_ = st.
removeWorkersUnderLock(t, value, st) ==
  IF ULt(workerMaxCount, value)
    THEN \* throw: nothing but the caller's state_ assignment has happened
         /\ state' = st
         /\ Finish(t, FALSE, 0)
         /\ UNCHANGED <<workerMaxCount, monitor, workerMonitor, colls, joined>>
    ELSE
         /\ workerMaxCount' = workerMaxCount - value
         /\ IF ULt(value, idleCount)
              THEN \E S \in SUBSET monitor :
                     /\ Cardinality(S) = Min(value, Cardinality(monitor))
                     /\ monitor' = monitor \ S
              ELSE monitor' = {}
         /\ IF workerCount # workerMaxCount'
              THEN /\ workerMonitor' = workerMonitor \cup {t}
                   /\ call' = [call EXCEPT ![t].pc = "rwwait"]
                   /\ state' = st
                   /\ UNCHANGED <<ret, colls, joined>>
              ELSE /\ DrainDeadWorkers
                   /\ state' = IF call[t].op = "stop" THEN "STOPPED" ELSE st
                   /\ Finish(t, TRUE, 0)
                   /\ UNCHANGED workerMonitor

RemoveWorkerLock(t, n) == AdminLock(t, "removeWorker", n)

RemoveWorker(t) ==
  /\ InCs(t, "removeWorker")
  /\ removeWorkersUnderLock(t, call[t].a, state)
  /\ mutex' = Free
  /\ UNCHANGED <<ctor, threadFactory, workerCount, idleCount,
                 pendingTaskCountMax, expiredCount, expireCallback, tasks,
                 maxMonitor, wpc, wtask, thrDetached, now, taskState, nextId,
                 hist>>
  /\ UNCHANGED thr

StopLock(t) == AdminLock(t, "stop", 0)

\* Impl::stop
Stop(t) ==
  /\ InCs(t, "stop")
  /\ mutex' = Free
  /\ IF state \notin {"STOPPING", "JOINING", "STOPPED"}
       THEN /\ removeWorkersUnderLock(t, workerCount, "JOINING")
            /\ joinSnap' = QueueIds(tasks)
            /\ joinSeen' = TRUE
            /\ joinWorkers' = workerCount
       ELSE /\ state' = "STOPPED"
            /\ Finish(t, TRUE, 0)
            /\ UNCHANGED <<workerMaxCount, monitor, workerMonitor, colls,
                           joined, joinSnap, joinSeen, joinWorkers>>
  /\ UNCHANGED <<ctor, threadFactory, workerCount, idleCount,
                 pendingTaskCountMax, expiredCount, expireCallback, tasks,
                 maxMonitor, wpc, wtask, thrDetached, now, taskState, nextId,
                 runCount, cbCount, removedIds, sweptIds, adminOps>>
  /\ UNCHANGED thr

\* workerMonitor_.wait() returned in removeWorkersUnderLock: the loop tests
\* again, then the dead workers are drained and the caller returns (stop
\* sets state_ = STOPPED).
RemoveWorkersWake(t) ==
  /\ call[t].pc = "rwwait" /\ t \notin workerMonitor
  /\ mutex = Free
  /\ IF workerCount # workerMaxCount
       THEN /\ workerMonitor' = workerMonitor \cup {t}
            /\ UNCHANGED <<call, ret, colls, joined, state>>
       ELSE /\ DrainDeadWorkers
            /\ state' = AfterRemove(t)
            /\ Finish(t, TRUE, 0)
            /\ UNCHANGED workerMonitor
  /\ UNCHANGED <<ctor, threadFactory, workerCount, workerMaxCount, idleCount,
                 pendingTaskCountMax, expiredCount, expireCallback, tasks,
                 mutex, monitor, maxMonitor, wpc, wtask, thrDetached, now,
                 taskState, nextId, hist>>
  /\ UNCHANGED thr

\* ------------------------------------------------------------ the queue
\* (variant: the cap test off by one)
AtCapOffByOne(q) == pendingTaskCountMax > 0 /\ Len(q) > pendingTaskCountMax

AtCap(q) == pendingTaskCountMax > 0 /\ Len(q) >= pendingTaskCountMax

\* (variant: the sweep stops at the first task that has not expired)
RECURSIVE removeExpiredFront(_, _)
removeExpiredFront(q, justOne) ==
  IF q = <<>> THEN [q |-> <<>>, out |-> {}]
  ELSE IF Expired(Head(q))
         THEN IF justOne
                THEN [q |-> Tail(q), out |-> {Head(q).id}]
                ELSE LET rest == removeExpiredFront(Tail(q), justOne)
                     IN [q |-> rest.q, out |-> {Head(q).id} \cup rest.out]
         ELSE [q |-> q, out |-> {}]

\* removeExpired(justOne) on queue q: the queue left and the ids erased.
RECURSIVE removeExpired(_, _)
removeExpired(q, justOne) ==
  IF q = <<>> THEN [q |-> <<>>, out |-> {}]
  ELSE IF Expired(Head(q))
         THEN IF justOne
                THEN [q |-> Tail(q), out |-> {Head(q).id}]
                ELSE LET rest == removeExpired(Tail(q), justOne)
                     IN [q |-> rest.q, out |-> {Head(q).id} \cup rest.out]
         ELSE LET rest == removeExpired(Tail(q), justOne)
              IN [q |-> <<Head(q)>> \o rest.q, out |-> rest.out]

\* What a sweep that erased the ids `out` does besides changing tasks_:
\* expireCallback_ (if set) is called for, and expiredCount_ counts, each one.
SweepEffects(out) ==
  /\ expiredCount' = expiredCount + Cardinality(out)
  /\ cbCount' = [i \in TaskIds |->
                   IF i \in out /\ expireCallback THEN cbCount[i] + 1 ELSE cbCount[i]]
  /\ sweptIds' = sweptIds \cup out

\* (variant: no worker is told of the new task)
AdmitNoNotify(t, q) ==
  /\ tasks' = Append(q, NewTask(nextId + 1, call[t].r, call[t].b))
  /\ nextId' = nextId + 1
  /\ taskState' = [taskState EXCEPT ![nextId + 1] = "WAITING"]
  /\ monitor' = monitor
  /\ Finish(t, TRUE, 0)

\* tasks_.push_back(make_shared<Task>(value, expiration)) and the notify
\* of monitor_ when a worker is idle, on queue q; add returns.
Admit(t, q) ==
  /\ tasks' = Append(q, NewTask(nextId + 1, call[t].r, call[t].b))
  /\ nextId' = nextId + 1
  /\ taskState' = [taskState EXCEPT ![nextId + 1] = "WAITING"]
  /\ IF idleCount > 0 THEN NotifyOne(monitor, monitor') ELSE monitor' = monitor
  /\ Finish(t, TRUE, 0)

\* every add in progress may still create a Task
AddsInFlight == Cardinality({t \in Threads : call[t].op = "add"})

\* ---------------------------------------- add(value, timeout, expiration)
\* Guard g(mutex_, timeout) took the mutex (lock, trylock or timedlock).
AddLock(t, timeout, expiration, r, lim) ==
  /\ nextId + AddsInFlight < lim
  /\ Lock(t, "add", timeout, expiration, r)

\* Guard g(mutex_, timeout) with timeout < 0 (trylock) or timeout > 0
\* (timedlock) did not get the mutex: add throws.
AddLockFail(t, timeout, expiration, r) ==
  /\ CanCall(t)
  /\ timeout # 0
  /\ mutex \notin {Free, t}
  /\ ret' = [t |-> t, op |-> "add", ok |-> FALSE, val |-> 0]
  /\ UNCHANGED <<ctor, mgr, tasks, colls, mutex, mons, wvars, call, now,
                 taskState, nextId, hist>>
  /\ UNCHANGED thr

\* (variant: the timeout is not looked at)
MayWaitAnyTimeout(t) == canSleep(t)

\* The wait loop of add may be entered: not a worker thread, timeout >= 0.
MayWait(t) == canSleep(t) /\ call[t].a >= 0

Add(t) ==
  /\ InCs(t, "add")
  /\ mutex' = Free
  /\ IF state # "STARTED"
       THEN /\ Finish(t, FALSE, 0)
            /\ UNCHANGED <<tasks, nextId, taskState, monitor, maxMonitor,
                           expiredCount, cbCount, sweptIds>>
       ELSE LET sw == IF AtCap(tasks) THEN removeExpired(tasks, TRUE)
                      ELSE [q |-> tasks, out |-> {}]
            IN
            /\ SweepEffects(sw.out)
            /\ IF AtCap(sw.q)
                 THEN IF MayWait(t)
                        THEN /\ maxMonitor' = maxMonitor \cup {t}
                             /\ call' = [call EXCEPT ![t].pc = "addwait"]
                             /\ tasks' = sw.q
                             /\ UNCHANGED <<ret, nextId, taskState, monitor>>
                        ELSE /\ Finish(t, FALSE, 0)
                             /\ tasks' = sw.q
                             /\ UNCHANGED <<nextId, taskState, monitor, maxMonitor>>
                 ELSE /\ Admit(t, sw.q)
                      /\ UNCHANGED maxMonitor
  /\ UNCHANGED <<ctor, state, threadFactory, workerCount, workerMaxCount,
                 idleCount, pendingTaskCountMax, expireCallback, colls,
                 workerMonitor, wvars, now, runCount, removedIds, joinSnap, joinSeen,
                 joinWorkers, adminOps>>
  /\ UNCHANGED thr

\* maxMonitor_.wait(timeout) returned normally: the loop tests again.
AddWake(t) ==
  /\ call[t].pc = "addwait" /\ t \notin maxMonitor
  /\ mutex = Free
  /\ IF AtCap(tasks)
       THEN /\ maxMonitor' = maxMonitor \cup {t}
            /\ UNCHANGED <<call, ret, tasks, nextId, taskState, monitor>>
       ELSE /\ Admit(t, tasks)
            /\ UNCHANGED maxMonitor
  /\ UNCHANGED <<ctor, mgr, colls, mutex, workerMonitor, wvars, now, hist>>
  /\ UNCHANGED thr

\* maxMonitor_.wait(timeout), timeout > 0, timed out: Monitor::wait throws.
\* wait_for reports a timeout whenever the deadline has passed by the time
\* the waiter is back, notified or not.
AddTimeout(t) ==
  /\ call[t].pc = "addwait"
  /\ call[t].a > 0
  /\ mutex = Free
  /\ maxMonitor' = maxMonitor \ {t}
  /\ Finish(t, FALSE, 0)
  /\ UNCHANGED <<ctor, mgr, tasks, colls, mutex, monitor, workerMonitor,
                 wvars, now, taskState, nextId, hist>>
  /\ UNCHANGED thr

\* ------------------------------------------------------------ remove(task)
RemoveLock(t, r) == Lock(t, "remove", 0, 0, r)

\* (variant: the last matching task)
LastMatch(q, r) ==
  IF \E i \in 1..Len(q) : q[i].runnable = r
    THEN CHOOSE i \in 1..Len(q) :
           /\ q[i].runnable = r
           /\ \A j \in (i + 1)..Len(q) : q[j].runnable # r
    ELSE 0

\* index of the first task of q whose runnable is r, or 0
FirstMatch(q, r) ==
  IF \E i \in 1..Len(q) : q[i].runnable = r
    THEN CHOOSE i \in 1..Len(q) :
           /\ q[i].runnable = r
           /\ \A j \in 1..(i - 1) : q[j].runnable # r
    ELSE 0

Erase(q, i) == [j \in 1..(Len(q) - 1) |-> IF j < i THEN q[j] ELSE q[j + 1]]

\* (variant: remove does not look at state_)
RemoveAnyState(t) ==
  /\ InCs(t, "remove")
  /\ mutex' = Free
  /\ LET i == FirstMatch(tasks, call[t].r) IN
     /\ Finish(t, TRUE, 0)
     /\ IF i = 0
          THEN UNCHANGED <<tasks, removedIds>>
          ELSE /\ tasks' = Erase(tasks, i)
               /\ removedIds' = removedIds \cup {tasks[i].id}
  /\ UNCHANGED <<ctor, mgr, colls, mons, wvars, now, taskState, nextId,
                 runCount, cbCount, sweptIds, joinSnap, joinSeen,
                 joinWorkers, adminOps>>
  /\ UNCHANGED thr

Remove(t) ==
  /\ InCs(t, "remove")
  /\ mutex' = Free
  /\ IF state # "STARTED"
       THEN Finish(t, FALSE, 0) /\ UNCHANGED <<tasks, removedIds>>
       ELSE LET i == FirstMatch(tasks, call[t].r) IN
            /\ Finish(t, TRUE, 0)
            /\ IF i = 0
                 THEN UNCHANGED <<tasks, removedIds>>
                 ELSE /\ tasks' = Erase(tasks, i)
                      /\ removedIds' = removedIds \cup {tasks[i].id}
  /\ UNCHANGED <<ctor, mgr, colls, mons, wvars, now, taskState, nextId,
                 runCount, cbCount, sweptIds, joinSnap, joinSeen,
                 joinWorkers, adminOps>>
  /\ UNCHANGED thr

\* ------------------------------------------------------ removeNextPending
RemoveNextPendingLock(t) == Lock(t, "removeNextPending", 0, 0, 0)

\* (variant: the newest pending task is taken)
RemoveNextPendingBack(t) ==
  /\ InCs(t, "removeNextPending")
  /\ mutex' = Free
  /\ IF state # "STARTED"
       THEN Finish(t, FALSE, 0) /\ UNCHANGED <<tasks, removedIds>>
       ELSE IF tasks = <<>>
              THEN Finish(t, TRUE, 0) /\ UNCHANGED <<tasks, removedIds>>
              ELSE /\ Finish(t, TRUE, tasks[Len(tasks)].runnable)
                   /\ tasks' = SubSeq(tasks, 1, Len(tasks) - 1)
                   /\ removedIds' = removedIds \cup {tasks[Len(tasks)].id}
  /\ UNCHANGED <<ctor, mgr, colls, mons, wvars, now, taskState, nextId,
                 runCount, cbCount, sweptIds, joinSnap, joinSeen,
                 joinWorkers, adminOps>>
  /\ UNCHANGED thr

RemoveNextPending(t) ==
  /\ InCs(t, "removeNextPending")
  /\ mutex' = Free
  /\ IF state # "STARTED"
       THEN Finish(t, FALSE, 0) /\ UNCHANGED <<tasks, removedIds>>
       ELSE IF tasks = <<>>
              THEN Finish(t, TRUE, 0) /\ UNCHANGED <<tasks, removedIds>>
              ELSE /\ Finish(t, TRUE, Head(tasks).runnable)
                   /\ tasks' = Tail(tasks)
                   /\ removedIds' = removedIds \cup {Head(tasks).id}
  /\ UNCHANGED <<ctor, mgr, colls, mons, wvars, now, taskState, nextId,
                 runCount, cbCount, sweptIds, joinSnap, joinSeen,
                 joinWorkers, adminOps>>
  /\ UNCHANGED thr

\* ----------------------------------------------------- removeExpiredTasks
\* removeExpiredTasks() is removeExpired(false), called without a Guard.
RemoveExpiredTasks(t) ==
  /\ CanCall(t)
  /\ LET sw == removeExpired(tasks, FALSE) IN
     /\ tasks' = sw.q
     /\ SweepEffects(sw.out)
  /\ ret' = [t |-> t, op |-> "removeExpiredTasks",
             ok |-> TRUE, val |-> 0]
  /\ UNCHANGED <<ctor, state, threadFactory, workerCount, workerMaxCount,
                 idleCount, pendingTaskCountMax, expireCallback, colls, mutex,
                 mons, wvars, call, now, taskState, nextId, runCount,
                 removedIds, joinSnap, joinSeen,
                 joinWorkers, adminOps>>
  /\ UNCHANGED thr

\* ------------------------------------------------------------------ clock
Tick ==
  /\ now < MaxTime
  /\ now' = now + 1
  /\ UNCHANGED <<ctor, mgr, tasks, colls, mutex, mons, wvars, call, ret,
                 taskState, nextId, hist>>
  /\ UNCHANGED thr

\* ============================================================ Worker::run
\* Guard g(manager_->mutex_) on entry, and manager_->mutex_.lock() after a
\* task has run.
WorkerLock(w) ==
  /\ wpc[w] \in {"entry", "relock"}
  /\ mutex = Free
  /\ mutex' = w
  /\ wpc' = [wpc EXCEPT ![w] = IF wpc[w] = "entry" THEN "entered" ELSE "loop"]
  /\ UNCHANGED <<ctor, mgr, tasks, colls, mons, wtask, thrDetached, joined,
                 call, ret, now, taskState, nextId, hist>>
  /\ UNCHANGED thr

\* Entry accounting: count this worker if workerCount_ < workerMaxCount_,
\* notify workerMonitor_ when the count reaches the maximum.
WorkerAdmit(w) ==
  /\ wpc[w] = "entered" /\ mutex = w
  /\ IF ULt(workerCount, workerMaxCount)
       THEN /\ workerCount' = workerCount + 1
            /\ IF workerCount' = workerMaxCount
                 THEN NotifyOne(workerMonitor, workerMonitor')
                 ELSE workerMonitor' = workerMonitor
            /\ wpc' = [wpc EXCEPT ![w] = "loop"]
       ELSE /\ wpc' = [wpc EXCEPT ![w] = "exit"]
            /\ UNCHANGED <<workerCount, workerMonitor>>
  /\ UNCHANGED <<ctor, state, threadFactory, workerMaxCount, idleCount,
                 pendingTaskCountMax, expiredCount, expireCallback, tasks,
                 colls, mutex, monitor, maxMonitor, wtask, thrDetached,
                 joined, call, ret, now, taskState, nextId, hist>>
  /\ UNCHANGED thr

\* (variant: the deadline is not looked at)
PoppedStateAlwaysRun(task) == "EXECUTING"

\* The state a popped task gets.
PoppedState(task) == IF Expired(task) THEN "TIMEDOUT" ELSE "EXECUTING"

\* One pass of while (active), from active = isActive() to the point where
\* the mutex is released or the callback is due:
\*   not active           -> leave the loop
\*   active, queue empty  -> idleCount_++ and monitor_.wait()
\*   active, task popped  -> EXECUTING: unlock and task->run();
\*                           TIMEDOUT: expireCallback_ if set, else next pass
WorkerLoop(w) ==
  /\ wpc[w] = "loop" /\ mutex = w
  /\ IF ~isActive
       THEN /\ wpc' = [wpc EXCEPT ![w] = "exit"]
            /\ UNCHANGED <<idleCount, monitor, maxMonitor, tasks, wtask,
                           taskState, runCount, mutex>>
       ELSE IF tasks = <<>>
         THEN /\ idleCount' = idleCount + 1
              /\ monitor' = monitor \cup {w}
              /\ mutex' = Free
              /\ wpc' = [wpc EXCEPT ![w] = "idle"]
              /\ UNCHANGED <<maxMonitor, tasks, wtask, taskState, runCount>>
         ELSE LET task == Head(tasks)
                  st   == PoppedState(task)
              IN
              /\ tasks' = Tail(tasks)
              /\ taskState' = [taskState EXCEPT ![task.id] = st]
              /\ IF pendingTaskCountMax # 0
                      /\ ULe(Len(tasks'), pendingTaskCountMax - 1)
                   THEN NotifyOne(maxMonitor, maxMonitor')
                   ELSE maxMonitor' = maxMonitor
              /\ IF st = "EXECUTING"
                   THEN /\ mutex' = Free
                        /\ wpc' = [wpc EXCEPT ![w] = "run"]
                        /\ wtask' = [wtask EXCEPT ![w] = task.id]
                        /\ runCount' = [runCount EXCEPT ![task.id] = @ + 1]
                   ELSE /\ wpc' = [wpc EXCEPT ![w] =
                                     IF expireCallback THEN "callback" ELSE "loop"]
                        /\ wtask' = [wtask EXCEPT ![w] =
                                       IF expireCallback THEN task.id ELSE NoTask]
                        /\ UNCHANGED <<mutex, runCount>>
              /\ UNCHANGED <<idleCount, monitor>>
  /\ UNCHANGED <<ctor, state, threadFactory, workerCount, workerMaxCount,
                 pendingTaskCountMax, expiredCount, expireCallback, colls,
                 workerMonitor, thrDetached, joined, call, ret, now, nextId,
                 cbCount, removedIds, sweptIds, joinSnap, joinSeen,
                 joinWorkers, adminOps>>
  /\ UNCHANGED thr

\* monitor_.wait() returned: mutex re-acquired, idleCount_--, loop tests again.
WorkerWake(w) ==
  /\ wpc[w] = "idle" /\ w \notin monitor
  /\ mutex = Free
  /\ mutex' = w
  /\ idleCount' = idleCount - 1
  /\ wpc' = [wpc EXCEPT ![w] = "loop"]
  /\ UNCHANGED <<ctor, state, threadFactory, workerCount, workerMaxCount,
                 pendingTaskCountMax, expiredCount, expireCallback, tasks,
                 colls, mons, wtask, thrDetached, joined, call, ret, now,
                 taskState, nextId, hist>>
  /\ UNCHANGED thr

\* (variant: a work item that throws ends the worker thread)
WorkerRunEndDies(w, returns) ==
  /\ wpc[w] = "run"
  /\ call[w] = Idle
  /\ taskState' = [taskState EXCEPT ![wtask[w]] = IF returns THEN "COMPLETE" ELSE @]
  /\ wpc' = [wpc EXCEPT ![w] = IF returns THEN "relock" ELSE "stopped"]
  /\ wtask' = [wtask EXCEPT ![w] = NoTask]
  /\ UNCHANGED <<ctor, mgr, tasks, colls, mutex, mons, thrDetached, joined,
                 call, ret, now, nextId, hist>>
  /\ UNCHANGED thr

\* Task::run: runnable_->run() returns (state_ = COMPLETE) or throws (the
\* worker catches it; state_ stays EXECUTING).
WorkerRunEnd(w, returns) ==
  /\ wpc[w] = "run"
  /\ call[w] = Idle
  /\ taskState' = [taskState EXCEPT ![wtask[w]] = IF returns THEN "COMPLETE" ELSE @]
  /\ wpc' = [wpc EXCEPT ![w] = "relock"]
  /\ wtask' = [wtask EXCEPT ![w] = NoTask]
  /\ UNCHANGED <<ctor, mgr, tasks, colls, mutex, mons, thrDetached, joined,
                 call, ret, now, nextId, hist>>
  /\ UNCHANGED thr

\* (variant: the TIMEDOUT branch runs the work item as well)
WorkerCallbackRuns(w) ==
  /\ wpc[w] = "callback" /\ mutex = w
  /\ cbCount' = [cbCount EXCEPT ![wtask[w]] = @ + 1]
  /\ runCount' = [runCount EXCEPT ![wtask[w]] = @ + 1]
  /\ expiredCount' = expiredCount + 1
  /\ wpc' = [wpc EXCEPT ![w] = "loop"]
  /\ wtask' = [wtask EXCEPT ![w] = NoTask]
  /\ UNCHANGED <<ctor, state, threadFactory, workerCount, workerMaxCount,
                 idleCount, pendingTaskCountMax, expireCallback, tasks, colls,
                 mutex, mons, thrDetached, joined, call, ret, now, taskState,
                 nextId, removedIds, sweptIds, joinSnap, joinSeen,
                 joinWorkers, adminOps>>
  /\ UNCHANGED thr

\* The TIMEDOUT branch: expireCallback_(task->getRunnable()) and
\* expiredCount_++, the mutex still held.
WorkerCallback(w) ==
  /\ wpc[w] = "callback" /\ mutex = w
  /\ cbCount' = [cbCount EXCEPT ![wtask[w]] = @ + 1]
  /\ expiredCount' = expiredCount + 1
  /\ wpc' = [wpc EXCEPT ![w] = "loop"]
  /\ wtask' = [wtask EXCEPT ![w] = NoTask]
  /\ UNCHANGED <<ctor, state, threadFactory, workerCount, workerMaxCount,
                 idleCount, pendingTaskCountMax, expireCallback, tasks, colls,
                 mutex, mons, thrDetached, joined, call, ret, now, taskState,
                 nextId, runCount, removedIds, sweptIds, joinSnap, joinSeen,
                 joinWorkers, adminOps>>
  /\ UNCHANGED thr

\* Final accounting, then Guard's destructor unlocks and the thread ends.
WorkerExit(w) ==
  /\ wpc[w] = "exit" /\ mutex = w
  /\ deadWorkers' = deadWorkers \cup {w}
  /\ workerCount' = workerCount - 1
  /\ IF workerCount' = workerMaxCount
       THEN NotifyOne(workerMonitor, workerMonitor')
       ELSE workerMonitor' = workerMonitor
  /\ mutex' = Free
  /\ wpc' = [wpc EXCEPT ![w] = "stopped"]
  /\ UNCHANGED <<ctor, state, threadFactory, workerMaxCount, idleCount,
                 pendingTaskCountMax, expiredCount, expireCallback, tasks,
                 workers, idMap, monitor, maxMonitor, wtask, thrDetached,
                 joined, call, ret, now, taskState, nextId, hist>>
  /\ thrState' = [thrState EXCEPT ![w] = "stopping"]
  /\ UNCHANGED <<thrMutex, thrWaiters>>

\* ========================================================= specifications
\* values the callers pass
Timeouts    == {-1, 0, 1}
Expirations == {0, 1}
Runnables   == {1}

WorkerStep ==
  \E w \in WorkerIds :
    \/ WorkerLock(w)
    \/ WorkerAdmit(w)
    \/ WorkerLoop(w)
    \/ WorkerWake(w)
    \/ \E returns \in BOOLEAN : WorkerRunEnd(w, returns)
    \/ WorkerCallback(w)
    \/ WorkerExit(w)

\* ----------------------------------------------------------- SpecAdmin
\* A blank manager, started, with a joinable or a detached factory; the
\* application threads resize the pool, stop it and submit work.
InitAdmin == StartedBlank({"joinable", "detached"})

WorkerStepAdmin ==
  \E w \in WorkerIds :
    \/ WorkerLock(w)
    \/ WorkerAdmit(w)
    \/ WorkerLoop(w)
    \/ WorkerWake(w)
    \/ WorkerRunEnd(w, TRUE)
    \/ WorkerExit(w)

NextAdmin ==
  \/ WorkerStepAdmin
  \/ \E t \in Clients :
       \/ \E n \in 1..AdminWorkers : AddWorkerCreate(t, n, AdminWorkers)
       \/ AddWorkerLock(t)
       \/ AddWorker(t)
       \/ AddWorkerWake(t)
       \/ \E n \in 1..AdminWorkers : RemoveWorkerLock(t, n)
       \/ RemoveWorker(t)
       \/ RemoveWorkersWake(t)
       \/ StopLock(t)
       \/ Stop(t)
       \/ AddLock(t, 0, 0, 1, AdminTasks)
       \/ Add(t)

SpecAdmin == InitAdmin /\ [][NextAdmin]_vars

\* ------------------------------------------------------------ SpecGrow
\* A manager just started, with a joinable or a detached factory, on which
\* application threads call addWorker and add: the pool only grows.
WorkerStepGrow ==
  \E w \in WorkerIds :
    \/ WorkerLock(w)
    \/ WorkerAdmit(w)
    \/ WorkerLoop(w)
    \/ WorkerWake(w)
    \/ WorkerRunEnd(w, TRUE)

NextGrow ==
  \/ WorkerStepGrow
  \/ \E t \in Clients :
       \/ \E n \in 1..GrowWorkers : AddWorkerCreate(t, n, GrowWorkers)
       \/ AddWorkerLock(t)
       \/ AddWorker(t)
       \/ AddWorkerWake(t)
       \/ AddLock(t, 0, 0, 1, GrowTasks)
       \/ Add(t)

SpecGrow == InitAdmin /\ [][NextGrow]_vars

\* ------------------------------------------------------ claims, SpecAdmin
\* thread t's call of operation `name` returns normally in this step
Returns(t, name) ==
  /\ call[t].op = name
  /\ call'[t] = Idle
  /\ ret'.ok

AdminOpNames == {"addWorker", "removeWorker", "stop", "start"}

\* no thread but t is inside addWorker, removeWorker, stop or start
AloneInAdmin(t) == \A u \in Threads \ {t} : call[u].op \notin AdminOpNames

\* the task has been run, dropped as expired, or taken out by a remove call
Processed(i) ==
  \/ runCount[i] > 0
  \/ taskState[i] = "TIMEDOUT"
  \/ i \in removedIds \cup sweptIds

\* C4 (as claimed): once a stop() has returned, every task that was queued
\* when state_ became JOINING - with at least one worker counted then - has
\* been run, dropped for expiration or removed.
C4_StopDrains ==
  (ret.op = "stop" /\ ret.ok /\ joinWorkers >= 1)
    => \A i \in joinSnap : Processed(i)

\* no thread is inside addWorker or removeWorker
NoResize == \A u \in Threads : call[u].op \notin {"addWorker", "removeWorker"}

\* C5 (as claimed): whenever a call of stop() returns - here with no thread
\* inside addWorker or removeWorker, so only stop() calls can be concurrent -
\* state_ is STOPPED, workerCount_ is 0 and every worker loop has exited.
C5_StopReturnsStopped ==
  [][\A t \in Clients :
       (Returns(t, "stop") /\ NoResize) =>
         /\ state' = "STOPPED"
         /\ workerCount' = 0
         /\ \A w \in WorkerIds : wpc'[w] \in {"unborn", "new", "stopped"}]_vars

\* C9: when the first addWorker(N) on a freshly started manager returns -
\* no other addWorker, removeWorker or stop has been called -
\* workerCount_ = workerMaxCount_ = N and each of the N new threads is in
\* its run loop, counted.
C9_AddWorkerCounted ==
  [][\A t \in Clients :
       (Returns(t, "addWorker") /\ adminOps = 1) =>
         /\ workerCount' = call[t].a
         /\ workerMaxCount' = call[t].a
         /\ Cardinality(call[t].ths) = call[t].a
         /\ \A w \in call[t].ths :
              wpc'[w] \in {"loop", "idle", "run", "relock", "callback"}]_vars

\* C9 witness: such an addWorker has returned and its workers are counted.
C9_Witness ==
  /\ ret.op = "addWorker" /\ ret.ok
  /\ adminOps = 1
  /\ workerCount = GrowWorkers
  /\ Cardinality(workers) = GrowWorkers

\* C10 (as claimed): when removeWorker(k) returns - no other thread being
\* inside addWorker, removeWorker or stop - workerCount_ = workerMaxCount_,
\* deadWorkers_ is empty, the exited workers are out of workers_ (joined if
\* the factory is joinable), |workers_| = workerCount_ and idMap_ holds
\* exactly the ids of the remaining workers.
C10_RemoveWorkerCleans ==
  [][\A t \in Clients :
       (Returns(t, "removeWorker") /\ AloneInAdmin(t)) =>
         /\ workerCount' = workerMaxCount'
         /\ deadWorkers' = {}
         /\ \A w \in workers' : wpc'[w] # "stopped"
         /\ \A w \in workers \ workers' :
              threadFactory = "joinable" => w \in joined'
         /\ Cardinality(workers') = workerCount'
         /\ idMap' = workers']_vars

\* ----------------------------------------------------------- SpecQueue
\* A SimpleThreadManager(1, 1) - one worker, at most one pending task -
\* started with a joinable or a detached factory, with or without an
\* expire callback.  Application threads and work items (the worker thread
\* inside run()) submit tasks with every kind of timeout and expiration
\* while the clock advances.
InitQueue ==
  StartedPool({"joinable", "detached"}, {1}, {1}, BOOLEAN)

WorkerStepQueue ==
  \E w \in WorkerIds :
    \/ WorkerLock(w)
    \/ WorkerLoop(w)
    \/ WorkerWake(w)
    \/ WorkerRunEnd(w, TRUE)
    \/ WorkerCallback(w)

NextQueue ==
  \/ WorkerStepQueue
  \/ Tick
  \/ \E t \in Threads :
       \/ \E to \in Timeouts, e \in Expirations :
            \/ AddLock(t, to, e, 1, QueueTasks)
            \/ AddLockFail(t, to, e, 1)
       \/ Add(t)
       \/ AddWake(t)
       \/ AddTimeout(t)

SpecQueue == InitQueue /\ [][NextQueue]_vars

\* C2: whenever the mutex is free and pendingTaskCountMax_ > 0, the queue
\* holds at most pendingTaskCountMax_ tasks, whatever the producers and
\* their timeouts.
C2_QueueWithinCap ==
  (mutex = Free /\ pendingTaskCountMax > 0)
    => Len(tasks) <= pendingTaskCountMax

\* The queue is full, one producer is blocked on maxMonitor_ and another
\* add is at the cap test behind it.
C2_Witness ==
  /\ pendingTaskCountMax > 0
  /\ Len(tasks) = pendingTaskCountMax
  /\ maxMonitor # {}
  /\ \E t \in Threads : call[t].op = "add" /\ call[t].pc = "addwait"
  /\ nextId >= 2

\* The task a worker's pass of the loop is about to pop is expired.
PopsExpired(w) ==
  /\ wpc[w] = "loop" /\ mutex = w
  /\ isActive /\ tasks # <<>>
  /\ Expired(Head(tasks))
  /\ Len(tasks') < Len(tasks)

\* C3: a task whose deadline is past when a worker dequeues it is never
\* run, and if an expireCallback_ is set the callback is invoked exactly
\* once for it (and never if none is set).
C3_ExpiredNeverRun ==
  [][ /\ \A w \in WorkerIds :
           PopsExpired(w) =>
             /\ taskState'[Head(tasks).id] = "TIMEDOUT"
             /\ runCount' = runCount
             /\ wpc'[w] # "run"
             /\ IF expireCallback
                  THEN wpc'[w] = "callback" /\ wtask'[w] = Head(tasks).id
                  ELSE wpc'[w] = "loop"
      /\ \A i \in TaskIds :
           taskState'[i] = "TIMEDOUT" =>
             /\ runCount'[i] = 0
             /\ cbCount'[i] =
                  IF expireCallback' /\ \A w \in WorkerIds : wtask'[w] # i
                    THEN 1 ELSE 0
    ]_vars

\* A worker has dequeued an expired task and the callback has been called
\* for it.
C3_Witness ==
  \E i \in TaskIds :
    /\ taskState[i] = "TIMEDOUT"
    /\ cbCount[i] = 1
    /\ runCount[i] = 0
    /\ \A w \in WorkerIds : wtask[w] # i

\* C6: an add made from a worker thread of this manager on a queue at its
\* cap fails instead of blocking, for a detached and a joinable factory
\* and every timeout: no worker thread ever waits on maxMonitor_.
C6_WorkerAddNeverBlocks ==
  \A w \in WorkerIds : call[w].pc # "addwait" /\ w \notin maxMonitor

NoExpired(q) == \A i \in 1..Len(q) : ~Expired(q[i])

InitLive ==
  StartedPool({"detached"}, {1, 2}, {0, 1}, {FALSE})

WorkerStepLive(w) ==
  \/ WorkerLock(w)
  \/ WorkerLoop(w)
  \/ WorkerWake(w)
  \/ WorkerRunEnd(w, TRUE)

ProducerStepLive(t) ==
  \/ Add(t)
  \/ AddWake(t)

NextLive ==
  \/ \E w \in WorkerIds : WorkerStepLive(w)
  \/ \E t \in Clients :
       \/ \E to \in Timeouts :
            \/ AddLock(t, to, 0, 1, LiveTasks)
            \/ AddLockFail(t, to, 0, 1)
       \/ ProducerStepLive(t)
       \/ AddTimeout(t)

FairLive ==
  /\ \A w \in WorkerIds : SF_vars(WorkerStepLive(w))
  /\ \A t \in Clients : SF_vars(ProducerStepLive(t))

SpecLive == InitLive /\ [][NextLive]_vars /\ FairLive

\* Task i is in the queue and has no deadline (it was added with
\* expiration 0).
QueuedNoDeadline(i) ==
  \E k \in 1..Len(tasks) : tasks[k].id = i /\ tasks[k].expireTime = NoExpire

\* C1: on a started manager with at least one worker, a task admitted by
\* add with expiration 0 has run() called exactly once: never twice, and
\* eventually once, work items terminating and scheduling being fair.
C1_AddedTaskRunsOnce ==
  /\ [](\A i \in TaskIds : runCount[i] <= 1)
  /\ \A i \in TaskIds : QueuedNoDeadline(i) ~> (runCount[i] = 1)

\* An add has just returned, its task is queued without a deadline, and an
\* earlier task has run once and completed.
C1_Witness ==
  /\ ret.op = "add" /\ ret.ok
  /\ \E i, j \in TaskIds :
       /\ j < i
       /\ QueuedNoDeadline(i)
       /\ runCount[j] = 1 /\ taskState[j] = "COMPLETE"

\* Producer t, who called add with timeout 0, is in the wait loop of add
\* although the workers have brought the queue below the cap.
BlockedBelowCap(t) ==
  /\ call[t].op = "add" /\ call[t].pc = "addwait" /\ call[t].a = 0
  /\ ~AtCap(tasks)

\* C8: a producer (not a worker) blocked in add with timeout 0 is
\* eventually admitted once the workers have dequeued tasks so that the
\* queue is below the cap.
C8_BlockedProducerAdmitted ==
  \A t \in Clients :
    BlockedBelowCap(t)
      ~> (call[t] = Idle /\ ret.t = t /\ ret.op = "add" /\ ret.ok)

\* ---------------------------------------------------------- SpecResize
\* A started manager with one idle worker, joinable or detached, whose
\* application threads call addWorker, removeWorker and add.  Work items
\* terminate and scheduling is fair: each worker goes on with Worker::run,
\* each caller goes on with the call it is in.
InitResize ==
  StartedPool({"joinable", "detached"}, {1}, {0}, {FALSE})

WorkerStepResize(w) ==
  \/ WorkerLock(w)
  \/ WorkerAdmit(w)
  \/ WorkerLoop(w)
  \/ WorkerWake(w)
  \/ WorkerRunEnd(w, TRUE)
  \/ WorkerExit(w)

CallerStepResize(t) ==
  \/ AddWorkerLock(t)
  \/ AddWorker(t)
  \/ AddWorkerWake(t)
  \/ RemoveWorker(t)
  \/ RemoveWorkersWake(t)
  \/ Add(t)

NextResize ==
  \/ \E w \in WorkerIds : WorkerStepResize(w)
  \/ \E t \in Clients :
       \/ \E n \in 1..ResizeWorkers : AddWorkerCreate(t, n, ResizeWorkers)
       \/ \E n \in 1..ResizeWorkers : RemoveWorkerLock(t, n)
       \/ AddLock(t, 0, 0, 1, ResizeTasks)
       \/ CallerStepResize(t)

FairResize ==
  /\ \A w \in WorkerIds : SF_vars(WorkerStepResize(w))
  /\ \A t \in Clients : SF_vars(CallerStepResize(t))

SpecResize == InitResize /\ [][NextResize]_vars /\ FairResize

\* Thread t is inside removeWorker(n), holding the mutex, with
\* n <= workerMaxCount_.
RemovingWithinMax(t) ==
  /\ InCs(t, "removeWorker")
  /\ ULe(call[t].a, workerMaxCount)

\* C11: removeWorker(n) with n <= workerMaxCount_ eventually returns, work
\* items terminating and scheduling being fair, whatever add, addWorker and
\* removeWorker calls other threads make meanwhile.
C11_RemoveWorkerReturns ==
  \A t \in Clients : RemovingWithinMax(t) ~> (call[t] = Idle)

\* ---------------------------------------------------------- SpecShrink
\* A started manager with one or two idle workers, joinable or detached,
\* whose application threads call removeWorker and add: the pool only
\* shrinks.
InitShrink ==
  StartedPool({"joinable", "detached"}, {1, 2}, {0}, {FALSE})

WorkerStepShrink ==
  \E w \in WorkerIds :
    \/ WorkerLock(w)
    \/ WorkerLoop(w)
    \/ WorkerWake(w)
    \/ WorkerRunEnd(w, TRUE)
    \/ WorkerExit(w)

NextShrink ==
  \/ WorkerStepShrink
  \/ \E t \in Clients :
       \/ \E n \in 1..ShrinkMax : RemoveWorkerLock(t, n)
       \/ RemoveWorker(t)
       \/ RemoveWorkersWake(t)
       \/ AddLock(t, 0, 0, 1, ShrinkTasks)
       \/ Add(t)

SpecShrink == InitShrink /\ [][NextShrink]_vars

\* C12: removeWorker(n) with n > workerMaxCount_ fails and leaves
\* workerMaxCount_, workerCount_, workers_, deadWorkers_, idMap_ and tasks_
\* unchanged, and wakes no worker.
C12_RemoveTooManyFails ==
  [][ \A t \in Clients :
        ( /\ InCs(t, "removeWorker")
          /\ ULt(workerMaxCount, call[t].a)
          /\ call'[t] # call[t] )
        => /\ call'[t] = Idle
           /\ ret' = [t |-> t, op |-> "removeWorker", ok |-> FALSE, val |-> 0]
           /\ UNCHANGED <<workerMaxCount, workerCount, workers, deadWorkers,
                          idMap, tasks, monitor, idleCount>>
    ]_vars

\* A removeWorker asking for more workers than the maximum has just
\* failed while a worker sleeps on monitor_.
C12_Witness ==
  /\ ret.op = "removeWorker" /\ ~ret.ok
  /\ ret.t \in Clients /\ call[ret.t] = Idle
  /\ workerMaxCount >= 1
  /\ monitor # {}

\* C13: whenever the mutex is free, 0 <= idleCount_ <= workerCount_ (as the
\* unsigned values they are), under any interleaving of add, addWorker,
\* removeWorker and worker steps.
C13_IdleWithinWorkers ==
  mutex = Free => (ULe(0, idleCount) /\ ULe(idleCount, workerCount))

\* the place of a state in enum STATE
StateRank(st) ==
  CASE st = "UNINITIALIZED" -> 0
    [] st = "STARTING"      -> 1
    [] st = "STARTED"       -> 2
    [] st = "JOINING"       -> 3
    [] st = "STOPPING"      -> 4
    [] st = "STOPPED"       -> 5

\* ------------------------------------------------------------ SpecLife
\* A manager just constructed, blank or SimpleThreadManager(1, 0), on which
\* application threads set the factory and call start, stop, addWorker,
\* removeWorker and add in any order.
InitLife ==
  \/ Constructed(FALSE, {0}, {0})
  \/ Constructed(TRUE, {1}, {0})

WorkerStepLife ==
  \E w \in WorkerIds :
    \/ WorkerLock(w)
    \/ WorkerAdmit(w)
    \/ WorkerLoop(w)
    \/ WorkerWake(w)
    \/ WorkerRunEnd(w, TRUE)
    \/ WorkerExit(w)

NextLife ==
  \/ WorkerStepLife
  \/ \E t \in Clients :
       \/ \E d \in {0, 1} : SetFactoryLock(t, d)
       \/ SetFactory(t)
       \/ StartLock(t)
       \/ SimpleStartLock(t)
       \/ SetPendingTaskCountMax(t)
       \/ SimpleStartRelock(t)
       \/ Start(t)
       \/ SimpleAddWorkerCreate(t)
       \/ AddWorkerCreate(t, 1, LifeWorkers)
       \/ AddWorkerLock(t)
       \/ AddWorker(t)
       \/ AddWorkerWake(t)
       \/ RemoveWorkerLock(t, 1)
       \/ RemoveWorker(t)
       \/ RemoveWorkersWake(t)
       \/ StopLock(t)
       \/ Stop(t)
       \/ AddLock(t, 0, 0, 1, LifeTasks)
       \/ Add(t)

SpecLife == InitLife /\ [][NextLife]_vars

\* C14: state_ only moves forward in the order UNINITIALIZED, STARTED,
\* JOINING, STOPPED, and once it is STOPPED no call changes it.
C14_StateMovesForward ==
  [][ /\ StateRank(state') >= StateRank(state)
      /\ state = "STOPPED" => state' = "STOPPED"
    ]_vars

\* A start() has returned on a manager that is STOPPED after having been
\* STARTED with tasks added.
C14_Witness ==
  /\ state = "STOPPED"
  /\ joinSeen
  /\ nextId >= 1
  /\ ret.op = "start" /\ ret.ok

\* ---------------------------------------------------------- SpecRestart
\* A manager on which threadFactory(f) and then stop() have returned before
\* any start(): stop() takes state_ to JOINING and, with no worker to
\* remove, to STOPPED.
StoppedUnstarted(simple, counts, caps, factories) ==
  /\ ctor \in [simple : {simple}, count : counts, cap : caps]
  /\ state = "STOPPED"
  /\ threadFactory \in factories
  /\ workerCount = 0
  /\ workerMaxCount = 0
  /\ idleCount = 0
  /\ pendingTaskCountMax = 0
  /\ expiredCount = 0
  /\ expireCallback = FALSE
  /\ tasks = <<>>
  /\ workers = {}
  /\ deadWorkers = {}
  /\ idMap = {}
  /\ mutex = Free
  /\ monitor = {}
  /\ maxMonitor = {}
  /\ workerMonitor = {}
  /\ wpc = [w \in WorkerIds |-> "unborn"]
  /\ wtask = [w \in WorkerIds |-> NoTask]
  /\ thrDetached = [w \in WorkerIds |-> FALSE]
  /\ joined = {}
  /\ call = [t \in Threads |-> Idle]
  /\ ret \in [t : Clients, op : {"stop"}, ok : {TRUE}, val : {0}]
  /\ now = 0
  /\ taskState = [i \in TaskIds |-> "NONE"]
  /\ nextId = 0
  /\ runCount = [i \in TaskIds |-> 0]
  /\ cbCount = [i \in TaskIds |-> 0]
  /\ removedIds = {}
  /\ sweptIds = {}
  /\ joinSnap = {}
  /\ joinSeen = TRUE
  /\ joinWorkers = 0
  /\ adminOps = 1
  /\ thrState = [w \in WorkerIds |-> "uninitialized"]
  /\ thrMutex = [w \in WorkerIds |-> Free]
  /\ thrWaiters = [w \in WorkerIds |-> {}]

\* Stopped managers, blank or SimpleThreadManager(1, 0), on which
\* application threads call start() and add().
InitRestart ==
  \/ StoppedUnstarted(FALSE, {0}, {0}, {"joinable", "detached"})
  \/ StoppedUnstarted(TRUE, {1}, {0}, {"joinable", "detached"})

WorkerStepRestart ==
  \E w \in WorkerIds :
    \/ WorkerLock(w)
    \/ WorkerAdmit(w)
    \/ WorkerLoop(w)

NextRestart ==
  \/ WorkerStepRestart
  \/ \E t \in Clients :
       \/ StartLock(t)
       \/ SimpleStartLock(t)
       \/ SetPendingTaskCountMax(t)
       \/ SimpleStartRelock(t)
       \/ Start(t)
       \/ SimpleAddWorkerCreate(t)
       \/ AddWorkerLock(t)
       \/ AddWorker(t)
       \/ AddWorkerWake(t)
       \/ AddLock(t, 0, 0, 1, RestartTasks)
       \/ Add(t)

SpecRestart == InitRestart /\ [][NextRestart]_vars

\* C15: start() on a manager whose state_ is STOPPED is a no-op, blank or
\* SimpleThreadManager: no step of the call changes state_, workers_,
\* workerCount_, workerMaxCount_ or tasks_ or creates a thread, and the
\* call returns without error.
C15_StartOnStoppedNoOp ==
  [][ \A t \in Clients :
        ( /\ call[t].op = "start"
          /\ state = "STOPPED"
          /\ call'[t] # call[t] )
        => /\ UNCHANGED <<state, workers, workerCount, workerMaxCount, tasks, wpc>>
           /\ call'[t] = Idle => ret'.ok
    ]_vars

\* ------------------------------------------------------------- SpecGate
\* A blank manager just constructed, or a started pool of one idle worker,
\* on which application threads call add, remove, removeNextPending and
\* stop: the queue operations meet every state_ but STARTING and STOPPING,
\* which the code never sets.
InitGate ==
  \/ Constructed(FALSE, {0}, {0})
  \/ StartedPool({"joinable", "detached"}, {1}, {0}, {FALSE})

WorkerStepGate ==
  \E w \in WorkerIds :
    \/ WorkerLock(w)
    \/ WorkerLoop(w)
    \/ WorkerWake(w)
    \/ WorkerRunEnd(w, TRUE)
    \/ WorkerExit(w)

NextGate ==
  \/ WorkerStepGate
  \/ \E t \in Clients :
       \/ AddLock(t, 0, 0, 1, GateTasks)
       \/ Add(t)
       \/ RemoveLock(t, 1)
       \/ Remove(t)
       \/ RemoveNextPendingLock(t)
       \/ RemoveNextPending(t)
       \/ StopLock(t)
       \/ Stop(t)
       \/ RemoveWorkersWake(t)

SpecGate == InitGate /\ [][NextGate]_vars

QueueOps == {"add", "remove", "removeNextPending"}

\* C16: add, remove and removeNextPending fail when they find state_ other
\* than STARTED, and then leave tasks_, expiredCount_ and the counters as
\* they were.
C16_NotStartedFails ==
  [][ \A t \in Clients :
        ( /\ call[t].op \in QueueOps
          /\ call[t].pc = "cs"
          /\ mutex = t
          /\ state # "STARTED"
          /\ call'[t] # call[t] )
        => /\ call'[t] = Idle
           /\ ret' = [t |-> t, op |-> call[t].op, ok |-> FALSE, val |-> 0]
           /\ UNCHANGED <<state, tasks, expiredCount, workerCount,
                          workerMaxCount, idleCount, pendingTaskCountMax,
                          nextId, taskState, removedIds, sweptIds>>
    ]_vars

\* removeNextPending has failed while stop() was waiting for a busy worker
\* and a task was still queued.
C16_Witness ==
  /\ ret.op = "removeNextPending" /\ ~ret.ok
  /\ call[ret.t] = Idle
  /\ state = "JOINING"
  /\ tasks # <<>>

\* ---------------------------------------------------------- SpecFactory
\* ThreadFactory::setDetached(d) on the factory the manager holds: the
\* application shares the object (it passed it in, and threadFactory()
\* hands it out) and the call takes no lock.
SetDetached(t, d) ==
  /\ CanCall(t)
  /\ threadFactory # "null"
  /\ threadFactory' = IF d = 1 THEN "detached" ELSE "joinable"
  /\ threadFactory' # threadFactory
  /\ UNCHANGED <<ctor, state, workerCount, workerMaxCount, idleCount,
                 pendingTaskCountMax, expiredCount, expireCallback, tasks,
                 colls, mutex, mons, wvars, call, ret, now, taskState,
                 nextId, hist>>
  /\ UNCHANGED thr

\* A blank manager just constructed, on which application threads set the
\* factory, change its disposition, start the manager and add and remove
\* workers.
InitFactory == Constructed(FALSE, {0}, {0})

WorkerStepFactory ==
  \E w \in WorkerIds :
    \/ WorkerLock(w)
    \/ WorkerAdmit(w)
    \/ WorkerLoop(w)
    \/ WorkerWake(w)
    \/ WorkerExit(w)

NextFactory ==
  \/ WorkerStepFactory
  \/ \E t \in Clients :
       \/ \E d \in {0, 1} : SetFactoryLock(t, d)
       \/ SetFactory(t)
       \/ \E d \in {0, 1} : SetDetached(t, d)
       \/ StartLock(t)
       \/ Start(t)
       \/ AddWorkerCreate(t, 1, FactoryWorkers)
       \/ AddWorkerLock(t)
       \/ AddWorker(t)
       \/ AddWorkerWake(t)
       \/ RemoveWorkerLock(t, 1)
       \/ RemoveWorker(t)
       \/ RemoveWorkersWake(t)

SpecFactory == InitFactory /\ [][NextFactory]_vars

\* C17: the factory setter succeeds iff no factory is set or the new
\* disposition equals the incumbent's, so that when removeWorker or stop
\* goes through deadWorkers_ the factory's disposition is the one every
\* dead worker's thread was created with.
C17_DrainSeesCreationDisposition ==
  [][ /\ \A t \in Clients :
           (InCs(t, "threadFactory") /\ call'[t] # call[t])
           => LET value == IF call[t].r = 1 THEN "detached" ELSE "joinable" IN
              /\ call'[t] = Idle
              /\ ret'.ok = (threadFactory \in {"null", value})
              /\ threadFactory' = IF ret'.ok THEN value ELSE threadFactory
      /\ \A d \in deadWorkers :
           deadWorkers' = {} => thrDetached[d] = (threadFactory = "detached")
    ]_vars

\* -------------------------------------------------------------- SpecTry
\* A started pool of one worker, unbounded or with room for two pending
\* tasks, on which application threads call add with timeout -1 only.
InitTry == StartedPool({"detached"}, {1}, {0, 2}, {FALSE})

WorkerStepTry ==
  \E w \in WorkerIds :
    \/ WorkerLock(w)
    \/ WorkerLoop(w)
    \/ WorkerWake(w)
    \/ WorkerRunEnd(w, TRUE)

NextTry ==
  \/ WorkerStepTry
  \/ \E t \in Clients :
       \/ AddLock(t, -1, 0, 1, TryTasks)
       \/ AddLockFail(t, -1, 0, 1)
       \/ Add(t)

SpecTry == InitTry /\ [][NextTry]_vars

\* the queue is below the cap and stays so even if every add in progress
\* is admitted
RoomForOneMore ==
  \/ pendingTaskCountMax = 0
  \/ Len(tasks) + AddsInFlight < pendingTaskCountMax

\* C18: on a STARTED manager with room in the queue, an add with timeout -1
\* never fails: it waits for the mutex, whoever holds it, and admits.
C18_NoWaitAddWaitsForMutex ==
  [][ ( /\ ret' # ret
        /\ ret'.op = "add"
        /\ state = "STARTED"
        /\ RoomForOneMore )
      => ret'.ok
    ]_vars

\* Tasks dropped as expired so far: erased by a sweep of removeExpired, or
\* popped by a worker and marked TIMEDOUT.
DroppedExpired == sweptIds \cup {i \in TaskIds : taskState[i] = "TIMEDOUT"}

\* C19: between operations expiredCount_ is the number of tasks dropped as
\* expired, whoever dropped them and whether or not expireCallback_ is set.
C19_ExpiredCountCounts ==
  mutex = Free => expiredCount = Cardinality(DroppedExpired)

\* ----------------------------------------------------------- SpecRemove
\* A started manager with no worker or one, unbounded queue, on which
\* application threads submit RemoveWorks different work items, each
\* possibly several times, and call remove with one of them or with a work
\* item that was never submitted.
InitRemove == StartedPool({"detached"}, {0, 1}, {0}, {FALSE})

WorkerStepRemove ==
  \E w \in WorkerIds :
    \/ WorkerLock(w)
    \/ WorkerLoop(w)
    \/ WorkerWake(w)
    \/ WorkerRunEnd(w, TRUE)

NextRemove ==
  \/ WorkerStepRemove
  \/ \E t \in Clients :
       \/ \E r \in 1..RemoveWorks : AddLock(t, 0, 0, r, RemoveTasks)
       \/ Add(t)
       \/ \E r \in 1..(RemoveWorks + 1) : RemoveLock(t, r)
       \/ Remove(t)

SpecRemove == InitRemove /\ [][NextRemove]_vars

\* C20: remove(work) on a STARTED manager takes out the oldest queued task
\* whose work item is `work` and nothing else, the rest keeping their order;
\* with no such task it returns normally and tasks_ is unchanged.
C20_RemoveFirstMatch ==
  [][ \A t \in Clients :
        (InCs(t, "remove") /\ state = "STARTED" /\ call'[t] # call[t])
        => LET r == call[t].r
               n == Len(tasks)
           IN
           /\ call'[t] = Idle
           /\ ret' = [t |-> t, op |-> "remove", ok |-> TRUE, val |-> 0]
           /\ IF \A j \in 1..n : tasks[j].runnable # r
                THEN tasks' = tasks
                ELSE \E i \in 1..n :
                       /\ tasks[i].runnable = r
                       /\ \A j \in 1..(i - 1) : tasks[j].runnable # r
                       /\ tasks' = SubSeq(tasks, 1, i - 1) \o SubSeq(tasks, i + 1, n)
    ]_vars

\* Three tasks were queued, the second and third with the same work item
\* and the first with another; remove has taken out the second only.
C20_Witness ==
  /\ ret.op = "remove" /\ ret.ok
  /\ removedIds = {2}
  /\ Len(tasks) = 2
  /\ tasks[1].id = 1 /\ tasks[2].id = 3
  /\ tasks[1].runnable # tasks[2].runnable

\* ------------------------------------------------------------ SpecSweep
\* A started manager with no worker or one, unbounded queue, with or
\* without an expire callback.  Application threads submit tasks with and
\* without a deadline and call removeExpiredTasks while the clock advances.
InitSweep == StartedPool({"detached"}, {0, 1}, {0}, BOOLEAN)

WorkerStepSweep ==
  \E w \in WorkerIds :
    \/ WorkerLock(w)
    \/ WorkerLoop(w)
    \/ WorkerWake(w)
    \/ WorkerRunEnd(w, TRUE)
    \/ WorkerCallback(w)

NextSweep ==
  \/ WorkerStepSweep
  \/ Tick
  \/ \E t \in Clients :
       \/ \E e \in Expirations : AddLock(t, 0, e, 1, SweepTasks)
       \/ Add(t)
       \/ RemoveExpiredTasks(t)

SpecSweep == InitSweep /\ [][NextSweep]_vars

Unexpired(task) == ~Expired(task)

\* a step of removeExpiredTasks taken while nobody holds the mutex
SweepsAlone ==
  /\ ret'.op = "removeExpiredTasks"
  /\ mutex = Free
  /\ UNCHANGED <<call, now, wpc, mutex>>

\* C21: removeExpiredTasks with no operation in progress erases exactly the
\* queued tasks whose deadline is before now, keeps the others in order,
\* calls expireCallback_ (if set) once for each erased task and adds their
\* number to expiredCount_.
C21_SweepRemovesExpired ==
  [][ SweepsAlone =>
        LET gone == {tasks[i].id : i \in {j \in 1..Len(tasks) : Expired(tasks[j])}}
        IN
        /\ tasks' = SelectSeq(tasks, Unexpired)
        /\ expiredCount' = expiredCount + Cardinality(gone)
        /\ cbCount' = [i \in TaskIds |->
                         IF i \in gone /\ expireCallback
                           THEN cbCount[i] + 1 ELSE cbCount[i]]
        /\ runCount' = runCount
        /\ ret'.ok
    ]_vars

\* A sweep has erased an expired task from behind a task that stays queued,
\* and the callback was called for it.
C21_Witness ==
  /\ ret.op = "removeExpiredTasks"
  /\ mutex = Free
  /\ expireCallback
  /\ tasks # <<>>
  /\ \E i \in sweptIds : i > Head(tasks).id /\ cbCount[i] = 1
  /\ expiredCount = Cardinality(sweptIds)

\* C25: removeExpiredTasks erases from tasks_ only while it holds the
\* mutex, that is never while another thread is inside a critical section.
C25_SweepUnderMutex ==
  [][ ( /\ ret'.op = "removeExpiredTasks"
        /\ UNCHANGED <<call, now, wpc>>
        /\ tasks' # tasks )
      => mutex = Free
    ]_vars

\* ------------------------------------------------------------- SpecFifo
\* A started pool of one worker, unbounded queue.  Application threads
\* submit FifoWorks different work items and call remove and
\* removeNextPending while the worker dequeues.
InitFifo == StartedPool({"detached"}, {1}, {0}, {FALSE})

WorkerStepFifo ==
  \E w \in WorkerIds :
    \/ WorkerLock(w)
    \/ WorkerLoop(w)
    \/ WorkerWake(w)
    \/ WorkerRunEnd(w, TRUE)

NextFifo ==
  \/ WorkerStepFifo
  \/ \E t \in Clients :
       \/ \E r \in 1..FifoWorks : AddLock(t, 0, 0, r, FifoTasks)
       \/ Add(t)
       \/ \E r \in 1..FifoWorks : RemoveLock(t, r)
       \/ Remove(t)
       \/ RemoveNextPendingLock(t)
       \/ RemoveNextPending(t)

SpecFifo == InitFifo /\ [][NextFifo]_vars

\* Task objects are numbered in the order add creates and pushes them, so
\* the oldest pending task is the one with the lowest id in the queue.
HeadIsOldest(q) == \A j \in 1..Len(q) : q[j].id >= Head(q).id

\* C22: a worker's dequeue and removeNextPending take the oldest admitted
\* task still pending, the head of tasks_; removeNextPending on an empty
\* queue returns an empty handle and changes nothing.
C22_HeadLeavesFirst ==
  [][ /\ \A w \in WorkerIds :
           (wpc[w] = "loop" /\ mutex = w /\ tasks' # tasks)
           => /\ HeadIsOldest(tasks)
              /\ tasks' = Tail(tasks)
              /\ taskState'[Head(tasks).id] # "WAITING"
              /\ wtask'[w] \in {Head(tasks).id, NoTask}
      /\ \A t \in Clients :
           ( /\ InCs(t, "removeNextPending")
             /\ state = "STARTED"
             /\ call'[t] # call[t] )
           => IF tasks = <<>>
                THEN /\ ret' = [t |-> t, op |-> "removeNextPending",
                                ok |-> TRUE, val |-> NoTask]
                     /\ UNCHANGED <<mgr, tasks, colls, mons, wvars, taskState,
                                    nextId, hist>>
                ELSE /\ HeadIsOldest(tasks)
                     /\ tasks' = Tail(tasks)
                     /\ ret' = [t |-> t, op |-> "removeNextPending",
                                ok |-> TRUE, val |-> Head(tasks).runnable]
    ]_vars

\* removeNextPending has returned a work item while a younger task stays
\* queued, a task from the middle was taken out by remove or an older one
\* by the worker, and the worker has run a task.
C22_Witness ==
  /\ ret.op = "removeNextPending" /\ ret.ok /\ ret.val # NoTask
  /\ tasks # <<>>
  /\ \E i \in removedIds : i < Head(tasks).id
  /\ \E i \in TaskIds : runCount[i] = 1
  /\ nextId >= 3

\* ------------------------------------------------------------ SpecThrow
\* A started pool of one or two workers, unbounded queue, whose work items
\* return or throw.  Scheduling is fair: a worker that is ready, or finds
\* the mutex free again and again, eventually goes on, and a thread inside
\* add leaves its critical section.
InitThrow == StartedPool({"detached"}, {1, 2}, {0}, {FALSE})

WorkerStepThrow(w) ==
  \/ WorkerLock(w)
  \/ WorkerLoop(w)
  \/ WorkerWake(w)
  \/ \E returns \in BOOLEAN : WorkerRunEnd(w, returns)

NextThrow ==
  \/ \E w \in WorkerIds : WorkerStepThrow(w)
  \/ \E t \in Clients :
       \/ AddLock(t, 0, 0, 1, ThrowTasks)
       \/ Add(t)

FairThrow ==
  /\ \A w \in WorkerIds : SF_vars(WorkerStepThrow(w))
  /\ \A t \in Clients : WF_vars(Add(t))

SpecThrow == InitThrow /\ [][NextThrow]_vars /\ FairThrow

\* C23: when run() of a work item throws, the worker goes to re-acquire the
\* mutex with workerCount_, workerMaxCount_ and workers_ untouched, takes
\* the mutex back at the top of its loop, and from there sleeps on the
\* empty queue or runs the next task.
C23_ThrowKeepsWorker ==
  /\ [][ \A w \in WorkerIds :
           /\ ( /\ wpc[w] = "run"
                /\ wpc'[w] # "run"
                /\ taskState'[wtask[w]] # "COMPLETE" )
              => /\ wpc'[w] = "relock"
                 /\ taskState'[wtask[w]] = "EXECUTING"
                 /\ UNCHANGED <<workerCount, workerMaxCount, idleCount,
                                workers, deadWorkers, idMap, tasks, mutex>>
           /\ (wpc[w] = "relock" /\ wpc'[w] # "relock")
              => (wpc'[w] = "loop" /\ mutex' = w)
       ]_vars
  /\ \A w \in WorkerIds :
       (wpc[w] = "relock") ~> (wpc[w] \in {"idle", "run"})

\* The only worker of the pool has run a work item that threw (its Task is
\* left EXECUTING) and afterwards one, queued later, that returned.
C23_Witness ==
  /\ ctor.count = 1 /\ workerCount = 1 /\ workerMaxCount = 1
  /\ \E i, k \in TaskIds :
       /\ i < k
       /\ taskState[i] = "EXECUTING" /\ runCount[i] = 1
       /\ \A w \in WorkerIds : wtask[w] # i
       /\ taskState[k] = "COMPLETE"

\* workers whose popped task is EXECUTING and whose run() is in progress
Executing ==
  {w \in WorkerIds : /\ wpc[w] = "run"
                     /\ wtask[w] # NoTask
                     /\ taskState[wtask[w]] = "EXECUTING"}

\* C24: whenever totalTaskCount() can take the mutex, what it returns,
\* tasks_.size() + workerCount_ - idleCount_, is the number of pending tasks
\* plus the number of tasks being executed.
C24_TotalTaskCount ==
  mutex = Free =>
    Len(tasks) + workerCount - idleCount = Len(tasks) + Cardinality(Executing)

\* C26: a worker that is in user code - run() of an EXECUTING task or
\* expireCallback_ for a TIMEDOUT one - does not hold the mutex, unless the
\* user code itself is inside a manager operation.
C26_UserCodeUnlocked ==
  \A w \in WorkerIds :
    (wpc[w] \in {"run", "callback"} /\ call[w] = Idle) => mutex # w

\* a worker holding the mutex pops task i off the head of tasks_ (the step
\* is the worker's, not a sweep's)
PoppedBy(w, i) ==
  /\ wpc[w] = "loop" /\ mutex = w
  /\ tasks # <<>> /\ Head(tasks).id = i
  /\ tasks' = Tail(tasks)
  /\ sweptIds' = sweptIds

\* run() of task i returns to the worker that popped it
ReturnsTo(w, i) ==
  /\ wpc[w] = "run" /\ wtask[w] = i
  /\ wpc'[w] = "relock"

\* C27: a Task is created WAITING and queued; it leaves WAITING once, to
\* EXECUTING or TIMEDOUT, when a worker holding the mutex pops it; COMPLETE
\* follows EXECUTING when run() returns; TIMEDOUT and COMPLETE are final.
\* No task is run twice, and none is both run and reported expired.
C27_TaskStateMachine ==
  [][ \A i \in TaskIds :
        /\ \A w \in WorkerIds : PoppedBy(w, i) => taskState'[i] # "WAITING"
        /\ taskState'[i] # taskState[i] =>
             CASE taskState[i] = "NONE" ->
                    /\ taskState'[i] = "WAITING"
                    /\ i \in QueueIds(tasks')
               [] taskState[i] = "WAITING" ->
                    /\ taskState'[i] \in {"EXECUTING", "TIMEDOUT"}
                    /\ \E w \in WorkerIds : PoppedBy(w, i)
               [] taskState[i] = "EXECUTING" ->
                    /\ taskState'[i] = "COMPLETE"
                    /\ \E w \in WorkerIds : ReturnsTo(w, i)
               [] OTHER -> FALSE
        /\ runCount'[i] <= 1
        /\ runCount'[i] = 1 => taskState'[i] \in {"EXECUTING", "COMPLETE"}
        /\ (cbCount'[i] > 0 \/ i \in sweptIds') => runCount'[i] = 0
    ]_vars

\* One task has completed, one was popped after its deadline and reported
\* to the callback, and one was swept out of the queue.
C27_Witness ==
  /\ \E i \in TaskIds : taskState[i] = "COMPLETE" /\ runCount[i] = 1
  /\ \E i \in TaskIds : taskState[i] = "TIMEDOUT" /\ cbCount[i] = 1
  /\ \E i \in sweptIds : taskState[i] = "WAITING"

\* worker loops that have counted themselves on entry and not yet exited;
\* with the mutex free no worker is between its loop and its final
\* accounting
Looping ==
  {w \in WorkerIds : wpc[w] \in {"loop", "idle", "run", "relock", "callback"}}

\* C28: workerCount_ is the number of worker loops that counted themselves
\* and have not exited: it never goes below zero nor above the size of
\* workers_, whatever addWorker, removeWorker and stop do concurrently.
C28_WorkerCountCounts ==
  /\ workerCount >= 0
  /\ workerCount <= Cardinality(workers)
  /\ mutex = Free => workerCount = Cardinality(Looping)


\* ----------------------------------------------------------- SpecThread
\* The Thread class on its own: an application makes Thread objects with a
\* factory of its own and starts them, as addWorker does under the manager's
\* mutex.  Every step below leaves the manager untouched.
ThreadOnly ==
  UNCHANGED <<ctor, mgr, tasks, colls, mutex, mons, wtask, joined, now,
              taskState, nextId, hist>>

\* ThreadFactory::newThread on a factory constructed with disposition d
NewThread(t, d) ==
  /\ CanCall(t)
  /\ Unborn # {}
  /\ LET w == CHOOSE u \in Unborn : \A v \in Unborn : u <= v IN
     /\ wpc' = [wpc EXCEPT ![w] = "new"]
     /\ thrDetached' = [thrDetached EXCEPT ![w] = d]
  /\ UNCHANGED <<call, ret, thr>>
  /\ ThreadOnly

\* no other thread is inside start() of the same Thread
StartsAlone(t, w) ==
  \A u \in Threads \ {t} : ~(call[u].op = "Thread::start" /\ call[u].a = w)

\* Thread::start, `if (getState() != uninitialized) return;`: getState takes
\* and releases the monitor
ThreadStartTest(t, w) ==
  /\ CanCall(t)
  /\ wpc[w] # "unborn"
  /\ StartsAlone(t, w)
  /\ thrMutex[w] = Free
  /\ IF thrState[w] # "uninitialized"
       THEN /\ call' = call
            /\ ret' = [t |-> t, op |-> "Thread::start", ok |-> TRUE, val |-> 0]
       ELSE /\ call' = [call EXCEPT ![t] = Op("Thread::start", "starting", w, 0, 0)]
            /\ ret' = ret
  /\ UNCHANGED <<wpc, thrDetached, thr>>
  /\ ThreadOnly

\* setState(starting)
ThreadSetStarting(t) ==
  /\ call[t].op = "Thread::start" /\ call[t].pc = "starting"
  /\ thrMutex[call[t].a] = Free
  /\ thrState' = [thrState EXCEPT ![call[t].a] = "starting"]
  /\ call' = [call EXCEPT ![t].pc = "sync"]
  /\ UNCHANGED <<wpc, thrDetached, ret, thrMutex, thrWaiters>>
  /\ ThreadOnly

\* Synchronized sync(monitor_)
ThreadSync(t) ==
  /\ call[t].op = "Thread::start" /\ call[t].pc = "sync"
  /\ thrMutex[call[t].a] = Free
  /\ thrMutex' = [thrMutex EXCEPT ![call[t].a] = t]
  /\ call' = [call EXCEPT ![t].pc = "spawn"]
  /\ UNCHANGED <<wpc, thrDetached, ret, thrState, thrWaiters>>
  /\ ThreadOnly

\* new std::thread(threadMain, ...) and detach(), the monitor still held
ThreadSpawn(t) ==
  /\ call[t].op = "Thread::start" /\ call[t].pc = "spawn"
  /\ wpc' = [wpc EXCEPT ![call[t].a] = "main"]
  /\ call' = [call EXCEPT ![t].pc = "wait"]
  /\ UNCHANGED <<thrDetached, ret, thr>>
  /\ ThreadOnly

\* monitor_.wait(): the monitor's mutex is released and the caller blocks
ThreadWait(t) ==
  /\ call[t].op = "Thread::start" /\ call[t].pc = "wait"
  /\ thrMutex' = [thrMutex EXCEPT ![call[t].a] = Free]
  /\ thrWaiters' = [thrWaiters EXCEPT ![call[t].a] = @ \cup {t}]
  /\ call' = [call EXCEPT ![t].pc = "waiting"]
  /\ UNCHANGED <<wpc, thrDetached, ret, thrState>>
  /\ ThreadOnly

\* conditionVariable_.wait(lock) is called once, with no predicate: the
\* standard lets it come back without a notification
ThreadWaitSpurious(t) ==
  /\ call[t].op = "Thread::start" /\ call[t].pc = "waiting"
  /\ t \in thrWaiters[call[t].a]
  /\ thrWaiters' = [thrWaiters EXCEPT ![call[t].a] = @ \ {t}]
  /\ UNCHANGED <<wpc, thrDetached, call, ret, thrState, thrMutex>>
  /\ ThreadOnly

\* wait() returns with the mutex again, start() returns and sync unlocks
ThreadStartReturn(t) ==
  /\ call[t].op = "Thread::start" /\ call[t].pc = "waiting"
  /\ t \notin thrWaiters[call[t].a]
  /\ thrMutex[call[t].a] = Free
  /\ Finish(t, TRUE, 0)
  /\ UNCHANGED <<wpc, thrDetached, thr>>
  /\ ThreadOnly

\* threadMain: thread->setState(started), which notifies the monitor
ThreadMainStarted(w) ==
  /\ wpc[w] = "main"
  /\ thrMutex[w] = Free
  /\ thrState' = [thrState EXCEPT ![w] = "started"]
  /\ \E m \in SUBSET thrWaiters[w] :
       /\ NotifyOne(thrWaiters[w], m)
       /\ thrWaiters' = [thrWaiters EXCEPT ![w] = m]
  /\ wpc' = [wpc EXCEPT ![w] = "body"]
  /\ UNCHANGED <<thrDetached, call, ret, thrMutex>>
  /\ ThreadOnly

\* threadMain: thread->runnable()->run() returns
ThreadBodyEnd(w) ==
  /\ wpc[w] = "body"
  /\ wpc' = [wpc EXCEPT ![w] = "ending"]
  /\ UNCHANGED <<thrDetached, call, ret, thr>>
  /\ ThreadOnly

\* threadMain: the state is turned to stopping unless it is stopping or
\* stopped already
ThreadMainEnd(w) ==
  /\ wpc[w] = "ending"
  /\ thrMutex[w] = Free
  /\ thrState' = [thrState EXCEPT ![w] =
                    IF @ \notin {"stopping", "stopped"} THEN "stopping" ELSE @]
  /\ wpc' = [wpc EXCEPT ![w] = "stopped"]
  /\ UNCHANGED <<thrDetached, call, ret, thrMutex, thrWaiters>>
  /\ ThreadOnly

\* Application threads make Thread objects and start them, some of them
\* twice; nothing of the manager runs.
InitThread == Constructed(FALSE, {0}, {0})

ThreadStartStep(t) ==
  \/ ThreadSetStarting(t)
  \/ ThreadSync(t)
  \/ ThreadSpawn(t)
  \/ ThreadWait(t)
  \/ ThreadStartReturn(t)

ThreadMainStep(w) ==
  \/ ThreadMainStarted(w)
  \/ ThreadBodyEnd(w)
  \/ ThreadMainEnd(w)

NextThread ==
  \/ \E t \in Clients, d \in BOOLEAN : NewThread(t, d)
  \/ \E t \in Clients, w \in WorkerIds : ThreadStartTest(t, w)
  \/ \E t \in Clients : ThreadStartStep(t)
  \/ \E t \in Clients : ThreadWaitSpurious(t)
  \/ \E w \in WorkerIds : ThreadMainStep(w)

SpecThread == InitThread /\ [][NextThread]_vars

\* the order of Thread::STATE
ThreadStateRank(s) ==
  CASE s = "uninitialized" -> 0
    [] s = "starting"      -> 1
    [] s = "started"       -> 2
    [] s = "stopping"      -> 3
    [] s = "stopped"       -> 4

\* start() of Thread w, which found it uninitialized, returns to t
StartReturns(t, w) ==
  /\ call[t].op = "Thread::start" /\ call[t].a = w
  /\ call'[t] = Idle

\* C29: Thread::start, on an uninitialized Thread, returns only once the
\* new thread has reached `started`; the notification that tells it so
\* finds the starter waiting (it cannot come before the wait); and the
\* state of a Thread only goes uninitialized, starting, started, stopping.
C29_StartRendezvous ==
  [][\A w \in WorkerIds :
       /\ \A t \in Clients :
            StartReturns(t, w) => ThreadStateRank(thrState[w]) >= ThreadStateRank("started")
       /\ (thrState[w] # "started" /\ thrState'[w] = "started") =>
            \E t \in Clients :
              /\ call[t].op = "Thread::start" /\ call[t].a = w
              /\ call[t].pc = "waiting"
       /\ thrState'[w] # thrState[w] =>
            /\ ThreadStateRank(thrState'[w]) = ThreadStateRank(thrState[w]) + 1
            /\ thrState'[w] # "stopped"]_vars


\* ---------------------------------------------------------- SpecUnblock
\* A started manager with a cap of one pending task and no worker or one
\* idle worker.  Application threads add tasks, always with timeout 0, and
\* take tasks out with remove, removeNextPending and removeExpiredTasks;
\* time passes.  Work items terminate and scheduling is fair: each worker
\* goes on with Worker::run, each caller goes on with the call it is in.
InitUnblock ==
  StartedPool({"detached"}, {0, 1}, {1}, BOOLEAN)

WorkerStepUnblock(w) ==
  \/ WorkerLock(w)
  \/ WorkerLoop(w)
  \/ WorkerWake(w)
  \/ WorkerRunEnd(w, TRUE)
  \/ WorkerCallback(w)

CallerStepUnblock(t) ==
  \/ Add(t)
  \/ AddWake(t)
  \/ Remove(t)
  \/ RemoveNextPending(t)

NextUnblock ==
  \/ \E w \in WorkerIds : WorkerStepUnblock(w)
  \/ Tick
  \/ \E t \in Clients :
       \/ \E e \in Expirations : AddLock(t, 0, e, 1, UnblockTasks)
       \/ RemoveLock(t, 1)
       \/ RemoveNextPendingLock(t)
       \/ CallerStepUnblock(t)
       \/ RemoveExpiredTasks(t)

FairUnblock ==
  /\ \A w \in WorkerIds : SF_vars(WorkerStepUnblock(w))
  /\ \A t \in Clients : SF_vars(CallerStepUnblock(t))

SpecUnblock == InitUnblock /\ [][NextUnblock]_vars /\ FairUnblock

\* Producer t called add with timeout 0, waits on maxMonitor_ in the loop of
\* add, and the queue is shorter than pendingTaskCountMax_.
WaitsBelowCap(t) ==
  /\ call[t].op = "add" /\ call[t].pc = "addwait" /\ call[t].a = 0
  /\ t \in Clients
  /\ Len(tasks) < pendingTaskCountMax

\* add has returned to t with its task admitted
Admitted(t) ==
  /\ call[t] = Idle
  /\ ret.t = t /\ ret.op = "add" /\ ret.ok

\* C30: a producer blocked in add with timeout 0 is eventually woken and
\* admitted once the queue is below the cap, whichever operation made room
\* (a worker's dequeue, remove, removeNextPending or removeExpiredTasks) and
\* even if no worker dequeues afterwards.
C30_NoProducerBlockedBelowCap ==
  \A t \in Clients : WaitsBelowCap(t) ~> Admitted(t)


\* stop() returns to t or throws out of it
StopEnds(t) ==
  /\ call[t].op = "stop"
  /\ call'[t] = Idle

\* C31: stop() never fails: its call removeWorkersUnderLock(workerCount_)
\* never meets value > workerMaxCount_, so stop never leaves by an exception
\* with state_ still JOINING, whatever addWorker and removeWorker calls are
\* waiting on workerMonitor_ meanwhile.
C31_StopNeverFails ==
  [][\A t \in Clients :
       StopEnds(t) => (ret'.ok /\ state' # "JOINING")]_vars

=============================================================================
